---- MODULE Spec2Model ----
(***************************************************************************)
(* Verification model of the saasgrid ingestion and metrics pipeline:      *)
(*   - SaaSMetricsCalculator (src/src/lib/calculations/metrics.ts)         *)
(*   - the pre-aggregated engine lib/metrics calculateMetrics               *)
(*   - the spreadsheet parser: detectDataFormat, parseMonthHeader,         *)
(*     transformData / transformLongFormatData / transformWideFormatData / *)
(*     transformExcelData (src/unnamed/part_005)                           *)
(*                                                                         *)
(* Conventions.                                                            *)
(*  - Strings that the code takes apart (headers, cells, period tokens)    *)
(*    are sequences of one-character strings.                              *)
(*  - Money is counted in whole currency units (integers); ratios that the *)
(*    code rounds to four decimals are integers counting 1/10000, so 1.0   *)
(*    is 10000 and 0.6667 is 6667.                                         *)
(*  - A canonical period "YYYY-MM" handed to the metrics engine is the     *)
(*    integer YYYYMM; for four-digit years the integer order is the        *)
(*    code-unit order Array.prototype.sort() uses on the strings.          *)
(***************************************************************************)
EXTENDS Integers, Sequences, FiniteSets, TLC

VARIABLES
  data,      \* CustomerMonth[] handed to SaaSMetricsCalculator.calculateMetrics
  metrics,   \* MonthlyMetrics[] it returned
  pc,        \* position of the run: "input" | "done"
  file,      \* the uploaded table, as the CSV or Excel reader hands it over
  currentYear, \* new Date().getFullYear(), read by normalizeYear
  detected,  \* the format detectDataFormat returned for the upload, if it ran
  outcome,   \* what parseSpreadsheet resolved or rejected with
  token,        \* the period token or year text handed to the normalizer
  normalized,   \* what the normalizer answered: [by, ok, v]
  validation,   \* the ValidationResult validateCsv returned
  store,        \* the monthly_metrics table: (company_id, month) -> row
  before,       \* the table as it was when the last request arrived
  upload,       \* the last request to a route that writes the table
  localStorage,  \* the browser's localStorage: the keys that hold an item -> the item
  extraction,  \* the extractions in progress: process -> its file, locals and position
  classification,  \* detectDataFormat's headers and result, once detected
  idRun,  \* one run of id generation: the set of assigned ids and the ids handed out
  uploadJobs   \* the upload_jobs table and the last response of the upload route
vars == <<data, metrics, pc, file, currentYear, detected, outcome, token, normalized, validation,
          store, before, upload, localStorage, extraction, classification, idRun, uploadJobs>>

(***************************************************************************)
(* Bounds of the model                                                     *)
(***************************************************************************)
MaxLedger == 3
NumCustomers == 2

CustomerNames == <<"X", "Y", "Z", "W">>
Customers == {CustomerNames[i] : i \in 1..NumCustomers}
\* 2022-12, 2023-01 and 2023-03: the last two are not calendar-adjacent
Periods == {202212, 202301, 202303}
\* whole amounts a ledger can carry; the long-format path lets a negative
\* amount through (transformLongFormatData has no sign test)
Amounts == {-50, 0, 50, 100}

CustomerMonth == [customerId : Customers, customerName : Customers,
                  month : Periods, mrr : Amounts]
LedgerEntries == {e \in CustomerMonth : e.customerName = e.customerId}
Ledgers(maxLen) == UNION {[1..n -> LedgerEntries] : n \in 0..maxLen}

(***************************************************************************)
(* Generic helpers                                                         *)
(***************************************************************************)
RECURSIVE SumOver(_, _)
\* Array.prototype.reduce((sum, v) => sum + v, 0) over the values of a Map
SumOver(f, S) ==
  IF S = {} THEN 0
  ELSE LET k == CHOOSE x \in S : TRUE IN f[k] + SumOver(f, S \ {k})

RECURSIVE SelectSeq2(_, _)
\* the subsequence of s whose elements satisfy the membership test T (a set)
SelectSeq2(s, T) ==
  IF s = <<>> THEN <<>>
  ELSE (IF Head(s) \in T THEN <<Head(s)>> ELSE <<>>) \o SelectSeq2(Tail(s), T)

Range(s) == {s[i] : i \in DOMAIN s}

\* an unrounded ratio n / d
Rat(n, d) == <<n, d>>
\* a value that is no finite number is a one-element tuple naming it
IsRat(r) == Len(r) = 2

(***************************************************************************)
(* Strings: a string is a sequence of one-character strings                *)
(***************************************************************************)
LowerLetters == <<"a", "b", "c", "d", "e", "f", "g", "h", "i", "j", "k", "l", "m", "n", "o", "p", "q", "r", "s", "t", "u", "v", "w", "x", "y", "z">>
UpperLetters == <<"A", "B", "C", "D", "E", "F", "G", "H", "I", "J", "K", "L", "M", "N", "O", "P", "Q", "R", "S", "T", "U", "V", "W", "X", "Y", "Z">>
DigitChars == <<"0", "1", "2", "3", "4", "5", "6", "7", "8", "9">>
Lower == Range(LowerLetters)
Alpha == Range(LowerLetters) \cup Range(UpperLetters)
Digit == Range(DigitChars)
Space == {" "}
\* String.prototype.toLowerCase
ToLowerChar(c) ==
  IF c \in Range(UpperLetters)
  THEN LowerLetters[CHOOSE i \in 1..26 : UpperLetters[i] = c]
  ELSE c
toLowerCase(s) == [i \in 1..Len(s) |-> ToLowerChar(s[i])]
\* String.prototype.trim
RECURSIVE TrimLeft(_)
TrimLeft(s) == IF s # <<>> /\ Head(s) \in Space THEN TrimLeft(Tail(s)) ELSE s
RECURSIVE TrimRight(_)
TrimRight(s) ==
  IF s # <<>> /\ s[Len(s)] \in Space THEN TrimRight(SubSeq(s, 1, Len(s) - 1)) ELSE s
trim(s) == TrimRight(TrimLeft(s))
\* String.prototype.includes
includes(s, sub) ==
  \E i \in 1..(Len(s) - Len(sub) + 1) : SubSeq(s, i, i + Len(sub) - 1) = sub
\* String.prototype.padStart(2, '0')
padStart2(s) == IF Len(s) < 2 THEN [i \in 1..(2 - Len(s)) |-> "0"] \o s ELSE s
\* value of a run of decimal digits
DigitValue(c) == (CHOOSE i \in 1..10 : DigitChars[i] = c) - 1
RECURSIVE DigitsToInt(_)
DigitsToInt(s) ==
  IF s = <<>> THEN 0
  ELSE 10 * DigitsToInt(SubSeq(s, 1, Len(s) - 1)) + DigitValue(s[Len(s)])
\* String(n) for a non-negative integer n
RECURSIVE NatToString(_)
NatToString(n) ==
  IF n < 10 THEN <<DigitChars[n + 1]>>
  ELSE NatToString(n \div 10) \o <<DigitChars[(n % 10) + 1]>>
\* String(n) for an integer n
IntToString(n) == IF n < 0 THEN <<"-">> \o NatToString(-n) ELSE NatToString(n)

(***************************************************************************)
(* Regular expressions: an anchored pattern ^...$ is a sequence of items,  *)
(* each a character class with a repetition range lo..hi.                  *)
(***************************************************************************)
Many == 99
Item(cls, lo, hi) == [cls |-> cls, lo |-> lo, hi |-> hi]
One(cls) == Item(cls, 1, 1)
RECURSIVE MatchFrom(_, _, _)
\* the ways pattern pat matches s from position i to the end: each way is
\* the sequence of lengths its items take
MatchFrom(s, i, pat) ==
  IF pat = <<>> THEN (IF i = Len(s) + 1 THEN {<<>>} ELSE {})
  ELSE LET it == Head(pat)
           top == IF it.hi < Len(s) - i + 1 THEN it.hi ELSE Len(s) - i + 1
           ns == {n \in it.lo..top : \A j \in i..(i + n - 1) : s[j] \in it.cls}
       IN UNION {{<<n>> \o r : r \in MatchFrom(s, i + n, Tail(pat))} : n \in ns}
\* RegExp.prototype.test
RegexTest(pat, s) == MatchFrom(s, 1, pat) # {}
RECURSIVE Segments(_, _, _)
Segments(s, i, lens) ==
  IF lens = <<>> THEN <<>>
  ELSE <<SubSeq(s, i, i + Head(lens) - 1)>> \o Segments(s, i + Head(lens), Tail(lens))
\* String.prototype.match: the text each item of the pattern matched
RegexMatch(pat, s) == Segments(s, 1, CHOOSE lens \in MatchFrom(s, 1, pat) : TRUE)

(***************************************************************************)
(* Period normalizer (src/unnamed/part_005)                                *)
(* A function that can throw returns [ok |-> TRUE, v |-> value] or         *)
(* [ok |-> FALSE, v |-> <<>>].                                             *)
(***************************************************************************)
Ok(v) == [ok |-> TRUE, v |-> v]
Thrown == [ok |-> FALSE, v |-> <<>>]

\* parseInt(s): the integer at the start of s (after blanks and a sign), or NaN
RECURSIVE DigitPrefix(_)
DigitPrefix(s) ==
  IF s # <<>> /\ Head(s) \in Digit THEN <<Head(s)>> \o DigitPrefix(Tail(s)) ELSE <<>>
parseInt(s) ==
  LET t == TrimLeft(s)
      neg == t # <<>> /\ Head(t) = "-"
      u == IF t # <<>> /\ Head(t) \in {"-", "+"} THEN Tail(t) ELSE t
      d == DigitPrefix(u)
  IN IF d = <<>> THEN [nan |-> TRUE, v |-> 0]
     ELSE [nan |-> FALSE, v |-> IF neg THEN -DigitsToInt(d) ELSE DigitsToInt(d)]
\* parseFloat(s) on the cell texts of the model, none of which has a decimal
\* point or an exponent: the same prefix rule as parseInt
parseFloat(s) == parseInt(s)

\* the serial numbers taken for spreadsheet dates (2000-01-01 .. 2029-12-30)
SerialMin == 36526
SerialMax == 47482
\* every number of four digits or more is taken for a serial
IsSerialAnyNumber(n) == ~n.nan /\ n.v >= 1000
IsSerial(n) == ~n.nan /\ n.v >= SerialMin /\ n.v <= SerialMax

\* year and month of the day that lies `serial` days after 1899-12-30
\* (new Date(1899, 11, 30) plus serial * 24h, read in a zone whose offset
\* never changes)
CivilFromSerial(serial) ==
  LET z == serial - 25569 + 719468
      era == z \div 146097
      doe == z - era * 146097
      yoe == (doe - doe \div 1460 + doe \div 36524 - doe \div 146096) \div 365
      doy == doe - (365 * yoe + yoe \div 4 - yoe \div 100)
      mp == (5 * doy + 2) \div 153
      m == IF mp < 10 THEN mp + 3 ELSE mp - 9
      y == yoe + era * 400 + (IF m <= 2 THEN 1 ELSE 0)
  IN [year |-> y, month |-> m]

\* `${year}-${month.toString().padStart(2, '0')}`
YearMonthString(year, month) ==
  NatToString(year) \o <<"-">> \o padStart2(NatToString(month))

convertExcelSerial(serialStr) ==
  LET serial == parseInt(serialStr)
  IN IF serial.nan THEN Thrown
     ELSE LET d == CivilFromSerial(serial.v)
          IN Ok(YearMonthString(d.year, d.month))

MonthNames ==
  <<<<<<"j", "a", "n">>, <<"0", "1">>>>,
    <<<<"j", "a", "n", "u", "a", "r", "y">>, <<"0", "1">>>>,
    <<<<"f", "e", "b">>, <<"0", "2">>>>,
    <<<<"f", "e", "b", "r", "u", "a", "r", "y">>, <<"0", "2">>>>,
    <<<<"m", "a", "r">>, <<"0", "3">>>>,
    <<<<"m", "a", "r", "c", "h">>, <<"0", "3">>>>,
    <<<<"a", "p", "r">>, <<"0", "4">>>>,
    <<<<"a", "p", "r", "i", "l">>, <<"0", "4">>>>,
    <<<<"m", "a", "y">>, <<"0", "5">>>>,
    <<<<"j", "u", "n">>, <<"0", "6">>>>,
    <<<<"j", "u", "n", "e">>, <<"0", "6">>>>,
    <<<<"j", "u", "l">>, <<"0", "7">>>>,
    <<<<"j", "u", "l", "y">>, <<"0", "7">>>>,
    <<<<"a", "u", "g">>, <<"0", "8">>>>,
    <<<<"a", "u", "g", "u", "s", "t">>, <<"0", "8">>>>,
    <<<<"s", "e", "p">>, <<"0", "9">>>>,
    <<<<"s", "e", "p", "t", "e", "m", "b", "e", "r">>, <<"0", "9">>>>,
    <<<<"o", "c", "t">>, <<"1", "0">>>>,
    <<<<"o", "c", "t", "o", "b", "e", "r">>, <<"1", "0">>>>,
    <<<<"n", "o", "v">>, <<"1", "1">>>>,
    <<<<"n", "o", "v", "e", "m", "b", "e", "r">>, <<"1", "1">>>>,
    <<<<"d", "e", "c">>, <<"1", "2">>>>,
    <<<<"d", "e", "c", "e", "m", "b", "e", "r">>, <<"1", "2">>>>>>
getMonthNumber(monthName) ==
  LET key == toLowerCase(monthName)
  IN IF \E i \in DOMAIN MonthNames : MonthNames[i][1] = key
     THEN Ok(MonthNames[CHOOSE i \in DOMAIN MonthNames : MonthNames[i][1] = key][2])
     ELSE Thrown

\* the forward window of the two-digit year rule
YearWindow == 20
\* normalizeYear with the threshold year itself sent to the previous century
normalizeYearExclusive(year, now) ==
  LET yearNum == parseInt(year).v
      currentCentury == (now \div 100) * 100
      twoDigitThreshold == now - currentCentury + YearWindow
  IN IF Len(year) = 2
     THEN (IF yearNum < twoDigitThreshold
           THEN Ok(NatToString(currentCentury + yearNum))
           ELSE Ok(NatToString(currentCentury - 100 + yearNum)))
     ELSE IF Len(year) = 4 THEN Ok(year)
     ELSE Thrown
\* normalizeYear; now is new Date().getFullYear()
normalizeYear(year, now) ==
  LET yearNum == parseInt(year).v
      currentCentury == (now \div 100) * 100
      twoDigitThreshold == now - currentCentury + YearWindow
  IN IF Len(year) = 2
     THEN (IF yearNum <= twoDigitThreshold
           THEN Ok(NatToString(currentCentury + yearNum))
           ELSE Ok(NatToString(currentCentury - 100 + yearNum)))
     ELSE IF Len(year) = 4 THEN Ok(year)
     ELSE Thrown

Slash == {"/"}
Dash == {"-"}
SlashDash == {"/", "-"}
SlashDashSpace == {"/", "-", " "}
\* /^\d{4}-\d{2}$/
ReCanonical == <<Item(Digit, 4, 4), One(Dash), Item(Digit, 2, 2)>>
\* /^\d{1,2}[\/\-]\d{4}$/
ReMonthYear == <<Item(Digit, 1, 2), One(SlashDash), Item(Digit, 4, 4)>>
\* /^\d{4}[\/\-]\d{1,2}$/
ReYearMonth == <<Item(Digit, 4, 4), One(SlashDash), Item(Digit, 1, 2)>>
\* /^\d{4}-\d{2}-\d{2}$/, the date-only form of the ISO format Date accepts
ReIsoDate == <<Item(Digit, 4, 4), One(Dash), Item(Digit, 2, 2), One(Dash),
               Item(Digit, 2, 2)>>
\* /^([A-Za-z]{3,9})[\/\-\s]+(\d{2,4})$/
ReNameYear == <<Item(Alpha, 3, 9), Item(SlashDashSpace, 1, Many), Item(Digit, 2, 4)>>
\* /^(\d{1,4})[\/\-](\d{1,4})$/
ReNumeric == <<Item(Digit, 1, 4), One(SlashDash), Item(Digit, 1, 4)>>
\* /^Q([1-4])[\/\-\s]*(\d{4})$/
ReQuarter == <<One({"Q"}), One({"1", "2", "3", "4"}),
               Item(SlashDashSpace, 0, Many), Item(Digit, 4, 4)>>

IsLeapYear(y) == (y % 4 = 0 /\ y % 100 # 0) \/ y % 400 = 0
DaysInMonth(y, m) ==
  IF m = 2 THEN (IF IsLeapYear(y) THEN 29 ELSE 28)
  ELSE IF m \in {4, 6, 9, 11} THEN 30 ELSE 31

\* new Date(monthStr) followed by getFullYear / getMonth.  A date-only ISO
\* string is a valid date when its month and day exist; a string
\* without that form is an Invalid Date.  (What an engine makes of other
\* digit-bearing texts is engine-specific; the period cells of the model
\* hold none.)
DateParse(monthStr) ==
  IF RegexTest(ReIsoDate, monthStr)
  THEN LET g == RegexMatch(ReIsoDate, monthStr)
           mo == DigitsToInt(g[3])
           dd == DigitsToInt(g[5])
       IN IF mo >= 1 /\ mo <= 12 /\ dd >= 1 /\ dd <= DaysInMonth(DigitsToInt(g[1]), mo)
          THEN Ok(YearMonthString(DigitsToInt(g[1]), mo))
          ELSE Thrown
  ELSE Thrown

\* formatMonth(month) for a text month; !month holds of the empty text
formatMonth(month) ==
  IF month = <<>> THEN Thrown
  ELSE LET monthStr == trim(month)
       IN IF RegexTest(ReCanonical, monthStr) THEN Ok(monthStr)
          ELSE IF RegexTest(ReMonthYear, monthStr)
          THEN LET g == RegexMatch(ReMonthYear, monthStr)
               IN Ok(g[3] \o <<"-">> \o padStart2(g[1]))
          ELSE IF RegexTest(ReYearMonth, monthStr)
          THEN LET g == RegexMatch(ReYearMonth, monthStr)
               IN Ok(g[1] \o <<"-">> \o padStart2(g[3]))
          ELSE DateParse(monthStr)

parseMonthHeader(monthHeader, now) ==
  LET cleaned == trim(monthHeader)
      serialNum == parseInt(cleaned)
  IN IF IsSerial(serialNum) THEN convertExcelSerial(cleaned)
     ELSE IF RegexTest(ReCanonical, cleaned) THEN Ok(cleaned)
     ELSE IF RegexTest(ReNameYear, cleaned)
     THEN LET g == RegexMatch(ReNameYear, cleaned)
              month == getMonthNumber(g[1])
              year == normalizeYear(g[3], now)
          IN IF month.ok /\ year.ok
             THEN Ok(year.v \o <<"-">> \o padStart2(month.v))
             ELSE Thrown
     ELSE IF RegexTest(ReNumeric, cleaned)
     THEN LET g == RegexMatch(ReNumeric, cleaned)
              first == g[1]
              second == g[3]
          IN IF Len(first) = 4
             THEN Ok(first \o <<"-">> \o padStart2(second))
             ELSE LET year == normalizeYear(second, now)
                  IN IF year.ok THEN Ok(year.v \o <<"-">> \o padStart2(first))
                     ELSE Thrown
     ELSE IF RegexTest(ReQuarter, cleaned)
     THEN LET g == RegexMatch(ReQuarter, cleaned)
              quarter == DigitsToInt(g[2])
          IN Ok(g[4] \o <<"-">> \o padStart2(NatToString((quarter - 1) * 3 + 1)))
     ELSE formatMonth(cleaned)

(***************************************************************************)
(* Format detector (src/unnamed/part_005)                                  *)
(***************************************************************************)
StartsWith(s, prefix) == Len(s) >= Len(prefix) /\ SubSeq(s, 1, Len(prefix)) = prefix
\* /^customer/i, /^client/i, /^company/i, /^account/i, /^name/i
CustomerPrefixes ==
  {<<"c", "u", "s", "t", "o", "m", "e", "r">>,
   <<"c", "l", "i", "e", "n", "t">>,
   <<"c", "o", "m", "p", "a", "n", "y">>,
   <<"a", "c", "c", "o", "u", "n", "t">>,
   <<"n", "a", "m", "e">>}
\* /^id$/i, /^column_0$/i
CustomerExact == {<<"i", "d">>, <<"c", "o", "l", "u", "m", "n", "_", "0">>}
IsCustomerHeader(header) ==
  LET h == toLowerCase(trim(header))
  IN (\E pre \in CustomerPrefixes : StartsWith(h, pre)) \/ h \in CustomerExact

findCustomerColumns(headers) ==
  LET matchingColumns == SelectSeq(SubSeq(headers, 1, IF Len(headers) < 3 THEN Len(headers) ELSE 3),
                                   IsCustomerHeader)
  IN IF Len(matchingColumns) = 0 /\ Len(headers) > 0 THEN <<headers[1]>>
     ELSE matchingColumns

\* the monthPatterns of findMonthColumns
MonthPatterns ==
  {<<Item(Digit, 4, 4), One(Dash), Item(Digit, 1, 2)>>,
   <<Item(Digit, 1, 2), One(Slash), Item(Digit, 2, 4)>>,
   <<Item(Alpha, 3, 3), One(Slash), Item(Digit, 2, 4)>>,
   <<Item(Alpha, 3, 3), One(Dash), Item(Digit, 2, 4)>>,
   <<Item(Alpha, 3, 3), Item(Space, 1, Many), Item(Digit, 2, 4)>>,
   <<Item(Alpha, 3, 9), Item(Space, 1, Many), Item(Digit, 4, 4)>>,
   <<One({"Q"}), One({"1", "2", "3", "4"}), Item(Space, 1, Many), Item(Digit, 4, 4)>>}

\* year * 12 + month of a text "YYYY-MM"
MonthIndex(ym) ==
  LET g == RegexMatch(<<Item(Digit, 1, Many), One(Dash), Item(Digit, 1, Many)>>, ym)
  IN DigitsToInt(g[1]) * 12 + DigitsToInt(g[3])
\* the greatest / least element of a non-empty set of integers
MaxOf(S) == CHOOSE x \in S : \A y \in S : y <= x
MinOf(S) == CHOOSE x \in S : \A y \in S : x <= y

looksLikeMonthSequence(dates) ==
  IF Len(dates) < 3 THEN FALSE
  ELSE LET idx == {MonthIndex(dates[i]) : i \in DOMAIN dates}
           monthsDiff == MaxOf(idx) - MinOf(idx)
       IN monthsDiff >= 2 /\ monthsDiff <= 60

findMonthColumns(headers, now) ==
  LET isSerialHeader(header) == IsSerial(parseInt(trim(header)))
      potentialSerialNumbers == SelectSeq(headers, isSerialHeader)
      convertedDates == [i \in DOMAIN potentialSerialNumbers |->
                           convertExcelSerial(potentialSerialNumbers[i]).v]
      isMonthHeader(header) ==
        LET cleaned == trim(header)
        IN /\ cleaned # <<>>
           /\ \E pat \in MonthPatterns : RegexTest(pat, cleaned)
           /\ parseMonthHeader(cleaned, now).ok
  IN IF Len(potentialSerialNumbers) >= 3 /\ looksLikeMonthSequence(convertedDates)
     THEN potentialSerialNumbers
     ELSE SelectSeq(headers, isMonthHeader)

LongFormatIndicators ==
  {<<"c", "u", "s", "t", "o", "m", "e", "r", "i", "d">>,
   <<"c", "u", "s", "t", "o", "m", "e", "r", " ", "i", "d">>,
   <<"m", "o", "n", "t", "h">>,
   <<"m", "r", "r">>,
   <<"r", "e", "v", "e", "n", "u", "e">>}
hasLongFormatColumns(headers) ==
  \E indicator \in LongFormatIndicators :
    \E i \in DOMAIN headers : includes(toLowerCase(headers[i]), indicator)

\* /^[A-Za-z]{3}\/\d{2}$/ and /^\d{1,2}\/\d{2,4}$/ of the fallback
PotentialDatePatterns ==
  {<<Item(Alpha, 3, 3), One(Slash), Item(Digit, 2, 2)>>,
   <<Item(Digit, 1, 2), One(Slash), Item(Digit, 2, 4)>>}

\* headers.map(h => String(h).trim()).filter(h => h !== '')
CleanHeaders(headers) ==
  LET nonEmpty(h) == h # <<>>
  IN SelectSeq([i \in DOMAIN headers |-> trim(headers[i])], nonEmpty)

\* the if / else-if chain on the columns found: the format it assigns
DetectBranch(monthColumns, hasLongCols, hasWideCols) ==
  IF Len(monthColumns) >= 3 THEN "wide"
  ELSE IF hasLongCols /\ ~hasWideCols THEN "long"
  ELSE IF hasLongCols /\ hasWideCols THEN "hybrid"
  ELSE "unknown"

\* the result after the if / else-if chain
DetectResult(branch, cleanHeaders, customerColumns, monthColumns) ==
  [format |-> branch,
   confidence |->
     IF branch = "wide"
     THEN (IF 10 * Len(monthColumns) < 9 * Len(cleanHeaders)
           THEN Rat(Len(monthColumns), Len(cleanHeaders))
           ELSE Rat(9, 10))
     ELSE IF branch = "long" THEN Rat(95, 100)
     ELSE Rat(0, 1),
   monthColumns |-> monthColumns,
   customerColumns |-> customerColumns,
   warnings |->
     IF branch = "hybrid" THEN <<"Mixed long/wide format detected">> ELSE <<>>]

\* the fallback for many columns of which three look like dates
DetectPotentialDates(result, cleanHeaders, potentialDateColumns) ==
  IF result.format = "unknown" /\ Len(cleanHeaders) > 5
     /\ Len(potentialDateColumns) >= 3
  THEN [result EXCEPT !.format = "wide", !.confidence = Rat(8, 10),
                      !.monthColumns = potentialDateColumns,
                      !.customerColumns = <<cleanHeaders[1]>>]
  ELSE result

\* the final fallback for ten columns or more
DetectForced(result, cleanHeaders) ==
  IF result.format = "unknown" /\ Len(cleanHeaders) >= 10
  THEN [result EXCEPT !.format = "wide", !.confidence = Rat(5, 10),
                      !.monthColumns = Tail(cleanHeaders),
                      !.customerColumns = <<cleanHeaders[1]>>,
                      !.warnings = result.warnings \o
                        <<"Forced wide format detection for testing">>]
  ELSE result

\* detectDataFormat once the columns are found
DetectColumns(cleanHeaders, customerColumns, monthColumns, hasLongCols) ==
  LET isPotentialDate(header) == \E pat \in PotentialDatePatterns : RegexTest(pat, header)
  IN DetectForced(
       DetectPotentialDates(
         DetectResult(DetectBranch(monthColumns, hasLongCols, Len(monthColumns) >= 3),
                      cleanHeaders, customerColumns, monthColumns),
         cleanHeaders, SelectSeq(cleanHeaders, isPotentialDate)),
       cleanHeaders)

\* detectDataFormat on the cleaned headers
DetectClean(cleanHeaders, now) ==
  IF Len(cleanHeaders) < 2
  THEN [format |-> "unknown", confidence |-> Rat(0, 1), monthColumns |-> <<>>,
        customerColumns |-> <<>>, warnings |-> <<"Too few columns detected">>]
  ELSE DetectColumns(cleanHeaders, findCustomerColumns(cleanHeaders),
                     findMonthColumns(cleanHeaders, now),
                     hasLongFormatColumns(cleanHeaders))

detectDataFormat(headers, now) == DetectClean(CleanHeaders(headers), now)

(***************************************************************************)
(* JavaScript values held by table cells                                   *)
(***************************************************************************)
Str(s) == [t |-> "string", s |-> s, n |-> 0]
Num(n) == [t |-> "number", s |-> <<>>, n |-> n]
NaNValue == [t |-> "NaN", s |-> <<>>, n |-> 0]
Null == [t |-> "null", s |-> <<>>, n |-> 0]
Undefined == [t |-> "undefined", s |-> <<>>, n |-> 0]
\* the truthiness test of ||, && and !
Truthy(c) == (c.t = "string" /\ c.s # <<>>) \/ (c.t = "number" /\ c.n # 0)
\* String(c)
ToStr(c) ==
  IF c.t = "string" THEN c.s
  ELSE IF c.t = "number" THEN IntToString(c.n)
  ELSE IF c.t = "NaN" THEN <<"N", "a", "N">>
  ELSE IF c.t = "null" THEN <<"n", "u", "l", "l">>
  ELSE <<"u", "n", "d", "e", "f", "i", "n", "e", "d">>
\* a || b
OrElse(a, b) == IF Truthy(a) THEN a ELSE b

\* isEmpty(value)
isEmpty(value) ==
  \/ value.t \in {"null", "undefined", "NaN"}
  \/ /\ value.t = "string"
     /\ trim(value.s) \in {<<>>, <<"N", "/", "A">>, <<"N", "U", "L", "L">>, <<"-">>}

(***************************************************************************)
(* Customer identity (src/unnamed/part_005)                                *)
(***************************************************************************)
IdChars == Lower \cup Digit
\* .replace(/[^a-z0-9]/g, '_')
ReplaceSpecial(s) == [i \in 1..Len(s) |-> IF s[i] \in IdChars THEN s[i] ELSE "_"]
\* .replace(/_+/g, '_')
RECURSIVE CollapseUnderscores(_)
CollapseUnderscores(s) ==
  IF Len(s) < 2 THEN s
  ELSE IF s[1] = "_" /\ s[2] = "_" THEN CollapseUnderscores(Tail(s))
  ELSE <<s[1]>> \o CollapseUnderscores(Tail(s))
\* .replace(/^_+|_+$/g, '')
RECURSIVE StripUnderscores(_)
StripUnderscores(s) ==
  IF s # <<>> /\ Head(s) = "_" THEN StripUnderscores(Tail(s))
  ELSE IF s # <<>> /\ s[Len(s)] = "_" THEN StripUnderscores(SubSeq(s, 1, Len(s) - 1))
  ELSE s
\* the longest generated base id
MaxIdLen == 40
\* the counter value beyond which generateCustomerId gives up
MaxIdCounter == 1000
BaseId(customerName) ==
  LET cut == StripUnderscores(CollapseUnderscores(ReplaceSpecial(toLowerCase(customerName))))
      b == SubSeq(cut, 1, IF Len(cut) < MaxIdLen THEN Len(cut) ELSE MaxIdLen)
  IN IF b = <<>> THEN <<"c", "u", "s", "t", "o", "m", "e", "r">> ELSE b
WithCounter(baseId, k) == baseId \o <<"_">> \o NatToString(k)
\* generateCustomerId: the id it returns; timestamp is Date.now()
generateCustomerId(customerName, existingIds, timestamp) ==
  LET baseId == BaseId(customerName)
      free == {k \in 1..(MaxIdCounter - 1) : WithCounter(baseId, k) \notin existingIds}
  IN IF baseId \notin existingIds THEN baseId
     ELSE IF free # {} THEN WithCounter(baseId, MinOf(free))
     ELSE WithCounter(baseId, timestamp)

(***************************************************************************)
(* Record extractor (src/unnamed/part_005)                                 *)
(* A CSV upload is [headers, rows]: Papa.parse with header: true gives one *)
(* object per data row, keyed by the trimmed headers, with text values.    *)
(* An Excel upload is the grid sheet_to_json gives with header: 1.         *)
(***************************************************************************)
\* row[key] of a row object of the CSV table
RowGet(headers, row, key) ==
  IF \E i \in DOMAIN headers : headers[i] = key
  THEN row[CHOOSE i \in DOMAIN headers : headers[i] = key]
  ELSE Undefined

\* a canonical array index ("0", "17", ...): such keys come first in Object.keys
IsArrayIndex(k) ==
  /\ k # <<>>
  /\ \A i \in DOMAIN k : k[i] \in Digit
  /\ (Len(k) = 1 \/ k[1] # "0")
  /\ Len(k) <= 9
RECURSIVE SortByNumber(_)
SortByNumber(S) ==
  IF S = {} THEN <<>>
  ELSE LET m == CHOOSE x \in S : \A y \in S : DigitsToInt(x) <= DigitsToInt(y)
       IN <<m>> \o SortByNumber(S \ {m})
\* Object.keys(data[0]): integer keys ascending, then the others as inserted
ObjectKeys(headers) ==
  LET notIndex(k) == ~IsArrayIndex(k)
  IN SortByNumber({k \in Range(headers) : IsArrayIndex(k)}) \o SelectSeq(headers, notIndex)

\* the outcome of an extraction: the ledger returned, or the error thrown
Returned(ledger) == [status |-> "ok", ledger |-> ledger, suggestions |-> 0]
\* a DataFormatError carrying n suggestions
DataFormatError(n) == [status |-> "DataFormatError", ledger |-> <<>>, suggestions |-> n]
\* a plain Error
PlainError == [status |-> "Error", ledger |-> <<>>, suggestions |-> 0]

Entry(id, name, month, mrr) ==
  [customerId |-> id, customerName |-> name, month |-> month, mrr |-> mrr]

\* the aliases of the long format, in the order they are tried
IdAliases == <<<<"c", "u", "s", "t", "o", "m", "e", "r", "I", "d">>, <<"C", "u", "s", "t", "o", "m", "e", "r", " ", "I", "D">>, <<"c", "u", "s", "t", "o", "m", "e", "r", "_", "i", "d">>, <<"i", "d">>>>
NameAliases == <<<<"c", "u", "s", "t", "o", "m", "e", "r", "N", "a", "m", "e">>, <<"C", "u", "s", "t", "o", "m", "e", "r", " ", "N", "a", "m", "e">>, <<"c", "u", "s", "t", "o", "m", "e", "r", "_", "n", "a", "m", "e">>, <<"n", "a", "m", "e">>>>
MonthAliases == <<<<"m", "o", "n", "t", "h">>, <<"M", "o", "n", "t", "h">>, <<"d", "a", "t", "e">>, <<"D", "a", "t", "e">>>>
MrrAliases == <<<<"m", "r", "r">>, <<"M", "R", "R">>, <<"r", "e", "v", "e", "n", "u", "e">>, <<"R", "e", "v", "e", "n", "u", "e">>>>
\* row[a1] || row[a2] || row[a3] || row[a4]
FirstTruthy(headers, row, aliases) ==
  OrElse(RowGet(headers, row, aliases[1]),
    OrElse(RowGet(headers, row, aliases[2]),
      OrElse(RowGet(headers, row, aliases[3]), RowGet(headers, row, aliases[4]))))

\* one iteration of the loop of transformLongFormatData: the entry pushed
\* (at most one), or the Error formatMonth threw
LongRow(headers, row) ==
  LET customerId == FirstTruthy(headers, row, IdAliases)
      customerName == FirstTruthy(headers, row, NameAliases)
      month == FirstTruthy(headers, row, MonthAliases)
      mrrValue == OrElse(FirstTruthy(headers, row, MrrAliases), Str(<<"0">>))
      mrr == parseFloat(ToStr(mrrValue))
  IN IF Truthy(customerId) /\ Truthy(customerName) /\ Truthy(month) /\ ~mrr.nan
     THEN LET m == formatMonth(ToStr(month))
          IN IF m.ok
             THEN [thrown |-> FALSE,
                   out |-> <<Entry(ToStr(customerId), ToStr(customerName), m.v, mrr.v)>>]
             ELSE [thrown |-> TRUE, out |-> <<>>]
     ELSE [thrown |-> FALSE, out |-> <<>>]

RECURSIVE LongRows(_, _)
LongRows(headers, rows) ==
  IF rows = <<>> THEN [thrown |-> FALSE, out |-> <<>>]
  ELSE LET r == LongRow(headers, Head(rows))
           rest == LongRows(headers, Tail(rows))
       IN IF r.thrown \/ rest.thrown THEN [thrown |-> TRUE, out |-> <<>>]
          ELSE [thrown |-> FALSE, out |-> r.out \o rest.out]

transformLongFormatData(headers, rows) ==
  LET r == LongRows(headers, rows)
  IN IF r.thrown THEN PlainError
     ELSE IF Len(r.out) = 0 THEN DataFormatError(1)
     ELSE Returned(r.out)

\* a < b for the period texts the sort compares (localeCompare)
CharRank(c) == IF c \in Digit THEN DigitValue(c) + 1 ELSE 0
RECURSIVE StrLess(_, _)
StrLess(a, b) ==
  IF b = <<>> THEN FALSE
  ELSE IF a = <<>> THEN TRUE
  ELSE IF Head(a) = Head(b) THEN StrLess(Tail(a), Tail(b))
  ELSE CharRank(Head(a)) < CharRank(Head(b))
RECURSIVE StableSortByMonth(_, _)
StableSortByMonth(cols, now) ==
  IF cols = <<>> THEN <<>>
  ELSE LET key(i) == parseMonthHeader(cols[i], now).v
           k == CHOOSE i \in DOMAIN cols :
                  /\ \A j \in DOMAIN cols : ~StrLess(key(j), key(i))
                  /\ \A j \in DOMAIN cols : j < i => StrLess(key(i), key(j))
       IN <<cols[k]>> \o
          StableSortByMonth([j \in 1..(Len(cols) - 1) |->
                               IF j < k THEN cols[j] ELSE cols[j + 1]], now)
\* sortMonthHeaders: the orders it can return.  When every header parses the
\* comparator is a consistent order and the sort is stable; when one does not
\* the comparator answers 0 for its pairs, is no longer consistent, and the
\* order the engine returns is implementation-defined.
sortMonthHeaders(monthHeaders, now) ==
  IF \A i \in DOMAIN monthHeaders : parseMonthHeader(monthHeaders[i], now).ok
  THEN {StableSortByMonth(monthHeaders, now)}
  ELSE IF Cardinality({i \in DOMAIN monthHeaders :
                         parseMonthHeader(monthHeaders[i], now).ok}) <= 1
  THEN {monthHeaders}   \* the comparator answers 0 for every pair: the sort is stable
  ELSE {[i \in DOMAIN monthHeaders |-> monthHeaders[p[i]]] :
          p \in Permutations(DOMAIN monthHeaders)}

\* 'Customer', the column extractCustomerData reads the name from
CustomerColumnName == <<"C", "u", "s", "t", "o", "m", "e", "r">>
\* /id$/i
EndsWithId(col) ==
  Len(col) >= 2 /\ toLowerCase(SubSeq(col, Len(col) - 1, Len(col))) = <<"i", "d">>
\* extractCustomerData: [thrown, id, name]
extractCustomerData(headers, row, customerColumns, existingIds, timestamp) ==
  LET customerName == trim(ToStr(OrElse(RowGet(headers, row, CustomerColumnName), Str(<<>>))))
      hasIdColumn == \E i \in DOMAIN customerColumns : EndsWithId(customerColumns[i])
      idColumn == customerColumns[CHOOSE i \in DOMAIN customerColumns :
                                    /\ EndsWithId(customerColumns[i])
                                    /\ \A j \in 1..(i - 1) : ~EndsWithId(customerColumns[j])]
  IN IF customerName \in {<<>>, <<"n", "u", "l", "l">>, <<"u", "n", "d", "e", "f", "i", "n", "e", "d">>}
     THEN [thrown |-> TRUE, id |-> <<>>, name |-> <<>>, generated |-> FALSE]
     ELSE IF hasIdColumn /\ Truthy(RowGet(headers, row, idColumn))
     THEN [thrown |-> FALSE, id |-> trim(ToStr(RowGet(headers, row, idColumn))),
           name |-> customerName, generated |-> FALSE]
     ELSE [thrown |-> FALSE,
           id |-> generateCustomerId(customerName, existingIds, timestamp),
           name |-> customerName, generated |-> TRUE]

\* String.prototype.split('/')
RECURSIVE SplitSlash(_)
SplitSlash(s) ==
  IF \E i \in DOMAIN s : s[i] = "/"
  THEN LET k == CHOOSE i \in DOMAIN s : s[i] = "/" /\ \A j \in 1..(i - 1) : s[j] # "/"
       IN <<SubSeq(s, 1, k - 1)>> \o SplitSlash(SubSeq(s, k + 1, Len(s)))
  ELSE <<s>>

\* the accepted sign of a wide-format amount: mrr < 0 is skipped
WideAmountAccepted(mrr) == mrr >= 0

\* the body of the month loop for one cell: the entries pushed (none or one)
WideCell(headers, row, monthHeader, customer, now) ==
  LET mrrValue == RowGet(headers, row, monthHeader)
      mrr == parseFloat(ToStr(mrrValue))
      month == parseMonthHeader(monthHeader, now)
      parts == SplitSlash(monthHeader)
  IN IF isEmpty(mrrValue) THEN <<>>
     ELSE IF mrr.nan \/ ~WideAmountAccepted(mrr.v) THEN <<>>
     ELSE IF month.ok THEN <<Entry(customer.id, customer.name, month.v, mrr.v)>>
     ELSE IF Len(parts) >= 2 /\ parts[1] # <<>> /\ parts[2] # <<>>
     THEN <<Entry(customer.id, customer.name,
                  <<"2", "0">> \o parts[2] \o <<"-">> \o padStart2(parts[1]), mrr.v)>>
     ELSE <<>>

RECURSIVE WideCells(_, _, _, _, _)
WideCells(headers, row, monthHeaders, customer, now) ==
  IF monthHeaders = <<>> THEN <<>>
  ELSE WideCell(headers, row, Head(monthHeaders), customer, now)
       \o WideCells(headers, row, Tail(monthHeaders), customer, now)

\* the id set the row loop of an extraction looks ids up in: every
\* extraction's set taken together
ExistingIdsOfAll(ex, p) == UNION {ex[q].existingIds : q \in DOMAIN ex}
\* the id set the row loop of extraction p looks ids up in: its own local
ExistingIdsOf(ex, p) == ex[p].existingIds

\* the rest of the loop body once the customer of the row is extracted
WideRowOf(headers, row, sortedMonthColumns, customer, existingIds, now) ==
  [entries |-> IF customer.thrown THEN <<>>
               ELSE WideCells(headers, row, sortedMonthColumns, customer, now),
   ids |-> IF ~customer.thrown /\ customer.generated
           THEN existingIds \cup {customer.id} ELSE existingIds]
\* the body of the row loop for one row: the entries pushed and the id set
\* after the row; a row whose identity cannot be extracted is skipped
WideRow(headers, row, sortedMonthColumns, customerColumns, existingIds, now, timestamp) ==
  WideRowOf(headers, row, sortedMonthColumns,
            extractCustomerData(headers, row, customerColumns, existingIds, timestamp),
            existingIds, now)

RECURSIVE WideRows(_, _, _, _, _, _, _)
\* the rest of the row loop after the first row gave step
WideRowsAfter(headers, rows, sortedMonthColumns, customerColumns, step, now, timestamp) ==
  step.entries \o WideRows(headers, Tail(rows), sortedMonthColumns, customerColumns,
                           step.ids, now, timestamp)
\* the row loop of transformWideFormatData, carrying existingIds
WideRows(headers, rows, sortedMonthColumns, customerColumns, existingIds, now, timestamp) ==
  IF rows = <<>> THEN <<>>
  ELSE WideRowsAfter(headers, rows, sortedMonthColumns, customerColumns,
                     WideRow(headers, Head(rows), sortedMonthColumns, customerColumns,
                             existingIds, now, timestamp),
                     now, timestamp)

\* transformWideFormatData, given the order sortMonthHeaders returned
transformWideFormatData(headers, rows, detection, sortedMonthColumns, now, timestamp) ==
  LET result == WideRows(headers, rows, sortedMonthColumns, detection.customerColumns,
                         {}, now, timestamp)
  IN IF Len(result) = 0 THEN DataFormatError(3) ELSE Returned(result)

\* the dispatch of transformData on the detected format
TransformDetected(headers, rows, detection, now, timestamp) ==
  IF detection.format = "unknown" THEN {DataFormatError(2)}
  ELSE IF detection.format = "hybrid" THEN {DataFormatError(1)}
  ELSE IF detection.format = "wide"
  THEN {transformWideFormatData(headers, rows, detection, order, now, timestamp) :
          order \in sortMonthHeaders(detection.monthColumns, now)}
  ELSE {transformLongFormatData(headers, rows)}

\* transformData, the dispatcher of the CSV path: the set of its outcomes
transformData(headers, rows, now, timestamp) ==
  IF Len(rows) = 0 THEN {DataFormatError(1)}
  ELSE TransformDetected(headers, rows, detectDataFormat(ObjectKeys(headers), now),
                         now, timestamp)

\* the headers transformExcelData derives from row 0 of the grid
ExcelHeaders(headerRow) ==
  [i \in DOMAIN headerRow |->
     LET header == trim(IF headerRow[i].t = "null" THEN <<>> ELSE ToStr(headerRow[i]))
     IN IF header = <<>> \/ header = <<"n", "u", "l", "l">>
        THEN (IF i = 1 THEN <<"C", "u", "s", "t", "o", "m", "e", "r">>
              ELSE <<"C", "o", "l", "u", "m", "n", "_">> \o NatToString(i - 1))
        ELSE header]

\* the index of the first grid row transformExcelData reads customers from
\* (0-based, as in the code: row 0 is the header, row 1 is skipped)
ExcelFirstCustomerRow == 2

\* the amounts the Excel path keeps: mrr <= 0 is skipped
ExcelAmountAccepted(mrr) == mrr > 0

\* the month loop of transformExcelData for one cell
ExcelCell(headers, customerRow, monthIndex, customerId, customerName) ==
  LET monthHeader == headers[monthIndex]
      mrrValue == customerRow[monthIndex]
      mrr == parseFloat(ToStr(mrrValue))
      month == convertExcelSerial(monthHeader)
  IN IF ~Truthy(mrrValue) THEN <<>>
     ELSE IF mrr.nan \/ ~ExcelAmountAccepted(mrr.v) THEN <<>>
     ELSE IF month.ok THEN <<Entry(customerId, customerName, month.v, mrr.v)>>
     ELSE <<>>

RECURSIVE ExcelCells(_, _, _, _, _)
ExcelCells(headers, customerRow, monthIndex, customerId, customerName) ==
  IF monthIndex > Len(customerRow) \/ monthIndex > Len(headers) THEN <<>>
  ELSE ExcelCell(headers, customerRow, monthIndex, customerId, customerName)
       \o ExcelCells(headers, customerRow, monthIndex + 1, customerId, customerName)

\* the body of the customer-row loop of transformExcelData
ExcelRow(headers, customerRow) ==
  LET customerName ==
        IF customerRow = <<>> THEN <<>>
        ELSE trim(ToStr(OrElse(customerRow[1], Str(<<>>))))
      customerId == ReplaceSpecial(toLowerCase(customerName))
  IN IF customerRow = <<>> THEN <<>>
     ELSE IF customerName = <<>>
             \/ ~includes(toLowerCase(customerName), <<"c", "u", "s", "t", "o", "m", "e", "r">>)
     THEN <<>>
     ELSE ExcelCells(headers, customerRow, 2, customerId, customerName)

RECURSIVE ExcelRows(_, _, _)
ExcelRows(headers, grid, i) ==
  IF i > Len(grid) THEN <<>>
  ELSE ExcelRow(headers, grid[i]) \o ExcelRows(headers, grid, i + 1)

\* transformExcelData(data): grid[1] is data[0]
transformExcelData(grid) ==
  IF Len(grid) < 2 THEN DataFormatError(0)
  ELSE Returned(ExcelRows(ExcelHeaders(grid[1]), grid, ExcelFirstCustomerRow + 1))

(***************************************************************************)
(* The uploads of the model                                                *)
(***************************************************************************)
MaxCsvRows == 2
MaxExcelRows == 3

RECURSIVE Product(_)
\* the rows whose i-th cell is drawn from the i-th pool
Product(pools) ==
  IF pools = <<>> THEN {<<>>}
  ELSE {<<c>> \o r : c \in Head(pools), r \in Product(Tail(pools))}
RowSeqs(rows, max) == UNION {[1..k -> rows] : k \in 0..max}

\* long format: one row per customer and month
LongLayout ==
  [headers |-> <<<<"c", "u", "s", "t", "o", "m", "e", "r", "I", "d">>, <<"c", "u", "s", "t", "o", "m", "e", "r", "N", "a", "m", "e">>, <<"m", "o", "n", "t", "h">>, <<"m", "r", "r">>>>,
   pools |-> <<{Str(<<"c", "1">>), Str(<<"c", "2">>)},
              {Str(<<"A", "c", "m", "e">>)},
              {Str(<<"2", "0", "2", "3", "-", "0", "1">>), Str(<<"0", "2", "/", "2", "0", "2", "3">>), Str(<<"f", "o", "o">>)},
              {Str(<<"1", "0", "0">>), Str(<<"-", "5">>), Str(<<>>)}>>]
\* customers as rows, three period columns
WideLayout ==
  [headers |-> <<<<"C", "u", "s", "t", "o", "m", "e", "r">>, <<"J", "a", "n", "/", "2", "3">>, <<"F", "e", "b", "/", "2", "3">>, <<"M", "a", "r", "/", "2", "3">>>>,
   pools |-> <<{Str(<<"A", "c", "m", "e", " ", "C", "o", "r", "p">>), Str(<<"B", "e", "t", "a">>)},
              {Str(<<"1", "0", "0">>), Str(<<>>), Str(<<"0">>)},
              {Str(<<>>), Str(<<"-", "5">>)},
              {Str(<<"1", "2", "0">>), Str(<<"N", "/", "A">>)}>>]
\* two period headers that normalize to the same month
SameMonthLayout ==
  [headers |-> <<<<"C", "u", "s", "t", "o", "m", "e", "r">>, <<"J", "a", "n", "/", "2", "3">>, <<"2", "0", "2", "3", "-", "0", "1">>, <<"F", "e", "b", "/", "2", "3">>>>,
   pools |-> <<{Str(<<"A", "c", "m", "e", " ", "C", "o", "r", "p">>)},
              {Str(<<"1", "0", "0">>), Str(<<>>)},
              {Str(<<"1", "0", "0">>), Str(<<"5", "0">>)},
              {Str(<<"7", "0">>)}>>]
\* customers as rows with an explicit id column
IdColumnLayout ==
  [headers |-> <<<<"C", "u", "s", "t", "o", "m", "e", "r">>, <<"i", "d">>, <<"J", "a", "n", "/", "2", "3">>, <<"F", "e", "b", "/", "2", "3">>, <<"M", "a", "r", "/", "2", "3">>>>,
   pools |-> <<{Str(<<"A", "c", "m", "e">>), Str(<<"B", "e", "t", "a">>)},
              {Str(<<"7">>)},
              {Str(<<"1", "0", "0">>)},
              {Str(<<>>)},
              {Str(<<>>)}>>]
\* long-format indicator headers together with five period headers
MixedLayout ==
  [headers |-> <<<<"c", "u", "s", "t", "o", "m", "e", "r", "I", "d">>, <<"m", "o", "n", "t", "h">>, <<"m", "r", "r">>, <<"J", "a", "n", "/", "2", "3">>, <<"F", "e", "b", "/", "2", "3">>, <<"M", "a", "r", "/", "2", "3">>, <<"A", "p", "r", "/", "2", "3">>, <<"M", "a", "y", "/", "2", "3">>>>,
   pools |-> <<{Str(<<"c", "1">>)},
              {Str(<<"2", "0", "2", "3", "-", "0", "1">>)},
              {Str(<<"1", "0", "0">>)},
              {Str(<<"1", "0">>), Str(<<>>)},
              {Str(<<"2", "0">>)},
              {Str(<<"3", "0">>)},
              {Str(<<"4", "0">>)},
              {Str(<<"5", "0">>)}>>]
\* a long-format indicator header in a table with a Customer column
MixedNamedLayout ==
  [headers |-> <<<<"C", "u", "s", "t", "o", "m", "e", "r">>, <<"m", "r", "r">>, <<"J", "a", "n", "/", "2", "3">>, <<"F", "e", "b", "/", "2", "3">>, <<"M", "a", "r", "/", "2", "3">>>>,
   pools |-> <<{Str(<<"A", "c", "m", "e">>)},
              {Str(<<"5">>)},
              {Str(<<"1", "0">>), Str(<<>>)},
              {Str(<<"2", "0">>)},
              {Str(<<"3", "0">>)}>>]
\* headers that carry no signal
UnknownLayout ==
  [headers |-> <<<<"f", "o", "o">>, <<"b", "a", "r">>>>,
   pools |-> <<{Str(<<"a">>)},
              {Str(<<"1">>), Str(<<"x">>)}>>]
\* customers as rows, the period headers carry the two-digit year 46
TwoDigitYearLayout ==
  [headers |-> <<<<"C", "u", "s", "t", "o", "m", "e", "r">>, <<"J", "a", "n", "/", "4", "6">>, <<"F", "e", "b", "/", "4", "6">>, <<"M", "a", "r", "/", "4", "6">>>>,
   pools |-> <<{Str(<<"A", "c", "m", "e">>)},
              {Str(<<"1", "0", "0">>)},
              {Str(<<"2", "0">>), Str(<<>>)},
              {Str(<<"3", "0">>)}>>]
\* three loose date-shaped headers no month pattern accepts, in six columns
FallbackLayout ==
  [headers |-> <<<<"C", "u", "s", "t", "o", "m", "e", "r">>, <<"F", "o", "o", "/", "2", "3">>, <<"B", "a", "r", "/", "2", "3">>, <<"B", "a", "z", "/", "2", "3">>, <<"P", "l", "a", "n">>, <<"R", "e", "g", "i", "o", "n">>>>,
   pools |-> <<{Str(<<"A", "c", "m", "e">>)},
              {Str(<<"1", "0", "0">>), Str(<<>>)},
              {Str(<<"2", "0">>)},
              {Str(<<>>)},
              {Str(<<"p", "r", "o">>)},
              {Str(<<"e", "u">>)}>>]
\* ten columns without a period header
ForcedLayout ==
  [headers |-> <<<<"C", "u", "s", "t", "o", "m", "e", "r">>, <<"P", "l", "a", "n">>, <<"R", "e", "g", "i", "o", "n">>, <<"O", "w", "n", "e", "r">>, <<"N", "o", "t", "e", "s">>, <<"T", "i", "e", "r">>, <<"S", "e", "a", "t", "s">>, <<"S", "t", "a", "t", "u", "s">>, <<"S", "o", "u", "r", "c", "e">>, <<"N", "e", "t", "/", "G", "r", "o", "s", "s">>>>,
   pools |-> <<{Str(<<"A", "c", "m", "e">>)},
              {Str(<<"p", "r", "o">>)},
              {Str(<<"e", "u">>)},
              {Str(<<"a", "n", "n">>)},
              {Str(<<>>)},
              {Str(<<>>)},
              {Str(<<"5">>), Str(<<>>)},
              {Str(<<>>)},
              {Str(<<>>)},
              {Str(<<"4", "0">>)}>>]
CsvLayouts == {LongLayout, WideLayout, SameMonthLayout, IdColumnLayout, MixedLayout, MixedNamedLayout, UnknownLayout, TwoDigitYearLayout,
   FallbackLayout, ForcedLayout}
CsvUploads(maxRows) ==
  UNION {{[kind |-> "csv", headers |-> l.headers, rows |-> rows] :
            rows \in RowSeqs(Product(l.pools), maxRows)} : l \in CsvLayouts}

\* a sheet whose period headers are date serials (2023-01-01, 2023-02-01,
\* 2023-03-01) and whose first header cell is blank
SerialSheet ==
  [header |-> <<Null, Num(44927), Num(44958), Num(44986)>>,
   pools |-> <<{Str(<<"C", "u", "s", "t", "o", "m", "e", "r", " ", "A">>), Str(<<"A", "c", "m", "e", " ", "C", "o", "r", "p">>)},
              {Num(100), Num(0)},
              {Null},
              {Num(120), Str(<<"N", "/", "A">>)}>>]
\* a sheet whose header row carries no format signal
UnknownSheet ==
  [header |-> <<Str(<<"x">>), Num(36526)>>,
   pools |-> <<{Str(<<"C", "u", "s", "t", "o", "m", "e", "r", " ", "A">>)}, {Num(100), Num(0)}>>]
ExcelSheets == {SerialSheet, UnknownSheet}
\* the grid of an Excel upload: the header row followed by the data rows, or
\* an empty sheet
ExcelUploads(maxRows) ==
  {[kind |-> "excel", headers |-> <<>>, rows |-> <<>>]} \cup
  UNION {{[kind |-> "excel", headers |-> <<>>, rows |-> <<l.header>> \o rows] :
            rows \in RowSeqs(Product(l.pools), maxRows)} : l \in ExcelSheets}

NoUpload == [kind |-> "none", headers |-> <<>>, rows |-> <<>>]
NoOutcome == [status |-> "none", ledger |-> <<>>, suggestions |-> 0]
NoResult == [by |-> "none", ok |-> FALSE, v |-> <<>>]
NoExtractions == <<>>

\* no header row has been classified yet
NoClassification == [headers |-> <<>>, done |-> FALSE]
\* no id has been generated
NoIdRun == [existingIds |-> {}, assigned |-> <<>>]
\* no upload job, and no response yet
NoJobs == [rows |-> <<>>, last |-> [reason |-> "none"]]
NoValidation ==
  [isValid |-> FALSE, errors |-> <<>>, warnings |-> <<>>, rows |-> <<>>,
   summary |-> [totalRows |-> 0, validRows |-> 0, errorRows |-> 0, warningRows |-> 0]]
\* new Date().getFullYear() at the time of the upload
CurrentYears == {2025, 2026}
\* Date.now() (a stand-in value)
Timestamps == {777}

(***************************************************************************)
(* SaaSMetricsCalculator                                                   *)
(***************************************************************************)
RECURSIVE KeysInOrder(_, _)
\* keys of the Map groupByMonth builds, in insertion (first occurrence) order
KeysInOrder(s, seen) ==
  IF s = <<>> THEN <<>>
  ELSE IF Head(s).month \in seen THEN KeysInOrder(Tail(s), seen)
       ELSE <<Head(s).month>> \o KeysInOrder(Tail(s), seen \cup {Head(s).month})

\* groupByMonth: month -> the entries of that month, in input order
groupByMonth(d) ==
  [keys |-> KeysInOrder(d, {}),
   get  |-> [m \in {d[i].month : i \in DOMAIN d} |->
               SelectSeq2(d, {e \in Range(d) : e.month = m})]]

RECURSIVE SortAscending(_)
\* Array.prototype.sort() on the distinct keys of the Map
SortAscending(S) ==
  IF S = {} THEN <<>>
  ELSE LET m == CHOOSE x \in S : \A y \in S : x <= y
       IN <<m>> \o SortAscending(S \ {m})

\* new Map(list.map(c => [c.customerId, c.mrr])): a later entry of the same
\* customerId overwrites the earlier one
MapOf(list) ==
  [id \in {list[i].customerId : i \in DOMAIN list} |->
     LET last == CHOOSE i \in DOMAIN list :
                   /\ list[i].customerId = id
                   /\ \A j \in DOMAIN list : j > i => list[j].customerId # id
     IN list[last].mrr]

\* previousMap.get(customerId) || 0
GetOrZero(map, id) == IF id \in DOMAIN map THEN map[id] ELSE 0

\* a customer counts as new only when it has no entry in the previous month
IsNewCustomerAbsentOnly(previousMap, id) == id \notin DOMAIN previousMap

\* a customer counts as new whenever its previous amount is not positive
IsNewCustomerNotPositive(previousMap, id) == GetOrZero(previousMap, id) <= 0

\* previousMrr === 0, with previousMrr = previousMap.get(customerId) || 0
IsNewCustomer(previousMap, id) == GetOrZero(previousMap, id) = 0

\* Math.round(x * 100) / 100 on a whole amount: exact
Round2(x) == x

\* the ratio counted in 1/20000: the halving of the rounding is left out
Round4Doubled(num, den) == (2 * num * 10000 + den) \div den

\* Math.round((num / den) * 10000) / 10000, counted in 1/10000, den > 0;
\* Math.round rounds halves upwards
Round4(num, den) == (2 * num * 10000 + den) \div (2 * den)

\* the value the code gives a retention ratio when previousTotalMRR is not > 0
ZeroBaseRetention == 0

calculateMonthMetrics(month, current, previous) ==
  LET currentMap  == MapOf(current)
      previousMap == MapOf(previous)
      cur  == DOMAIN currentMap
      prev == DOMAIN previousMap
      isNew(id) == IsNewCustomer(previousMap, id)
      newMRR == SumOver(currentMap, {id \in cur : isNew(id)})
      expansionMRR ==
        SumOver([id \in cur |-> currentMap[id] - GetOrZero(previousMap, id)],
                {id \in cur : ~isNew(id) /\ currentMap[id] > previousMap[id]})
      contractionMRR ==
        SumOver([id \in cur |-> GetOrZero(previousMap, id) - currentMap[id]],
                {id \in cur : ~isNew(id) /\ currentMap[id] < previousMap[id]})
      churnedMRR == SumOver(previousMap, {id \in prev : id \notin cur})
      totalMRR == SumOver(currentMap, cur)
      previousTotalMRR == SumOver(previousMap, prev)
      grossRevenueRetention ==
        IF previousTotalMRR > 0
        THEN Round4(previousTotalMRR - churnedMRR - contractionMRR, previousTotalMRR)
        ELSE ZeroBaseRetention
      netRevenueRetention ==
        IF previousTotalMRR > 0
        THEN Round4(previousTotalMRR - churnedMRR - contractionMRR + expansionMRR,
                    previousTotalMRR)
        ELSE ZeroBaseRetention
      previousCustomerCount == Cardinality(prev)
      churnedCustomers == Cardinality({id \in prev : id \notin cur})
      logoChurnRate ==
        IF previousCustomerCount > 0
        THEN Round4(churnedCustomers, previousCustomerCount)
        ELSE 0
  IN [month |-> month,
      totalMRR |-> Round2(totalMRR),
      arr |-> Round2(totalMRR * 12),
      customerCount |-> Cardinality(cur),
      newMRR |-> Round2(newMRR),
      expansionMRR |-> Round2(expansionMRR),
      contractionMRR |-> Round2(contractionMRR),
      churnedMRR |-> Round2(churnedMRR),
      grossRevenueRetention |-> grossRevenueRetention,
      netRevenueRetention |-> netRevenueRetention,
      logoChurnRate |-> logoChurnRate]

\* months = Array.from(monthlyData.keys()) without the .sort()
MonthsUnsorted(monthlyData) == monthlyData.keys

\* months = Array.from(monthlyData.keys()).sort()
MonthsOf(monthlyData) == SortAscending(Range(monthlyData.keys))

calculateMetrics(d) ==
  LET monthlyData == groupByMonth(d)
      months == MonthsOf(monthlyData)
  IN [i \in 1..Len(months) |->
        calculateMonthMetrics(months[i],
                              monthlyData.get[months[i]],
                              IF i > 1 THEN monthlyData.get[months[i - 1]] ELSE <<>>)]

(***************************************************************************)
(* lib/metrics: the engine over pre-aggregated MonthlyMetric rows.         *)
(* Its ratios are not rounded: a ratio is a pair <<numerator, denominator>>*)
(* with a positive denominator, or one of <<"NaN">>, <<"Infinity">>,      *)
(* <<"-Infinity">>.                                                        *)
(***************************************************************************)
\* JavaScript n / d on numbers
JsDiv(n, d) ==
  IF d > 0 THEN Rat(n, d)
  ELSE IF d < 0 THEN Rat(-n, -d)
  ELSE IF n > 0 THEN <<"Infinity">> ELSE IF n < 0 THEN <<"-Infinity">> ELSE <<"NaN">>
\* Math.max(0, r) for a ratio r
MaxZero(r) == IF r[1] < 0 THEN Rat(0, 1) ELSE r
\* Math.max(0, Math.min(1, r))
Clamp01(r) == IF r[1] < 0 THEN Rat(0, 1) ELSE IF r[1] > r[2] THEN Rat(1, 1) ELSE r

RECURSIVE SortRowsByMonth(_)
\* [...data].sort((a, b) => a.month.localeCompare(b.month)), a stable sort
SortRowsByMonth(rows) ==
  IF rows = <<>> THEN <<>>
  ELSE LET k == CHOOSE i \in DOMAIN rows :
                  /\ \A j \in DOMAIN rows : rows[i].month <= rows[j].month
                  /\ \A j \in DOMAIN rows : j < i => rows[j].month # rows[i].month
       IN <<rows[k]>> \o
          SortRowsByMonth([j \in 1..(Len(rows) - 1) |->
                             IF j < k THEN rows[j] ELSE rows[j + 1]])

libCalculateMetrics(rows) ==
  IF rows = <<>>
  THEN [mrr |-> 0, arr |-> 0, customerCount |-> 0, mom |-> Rat(0, 1),
        nrr |-> Rat(1, 1), grr |-> Rat(1, 1), churnRate |-> Rat(0, 1),
        newMrr |-> 0, expansionMrr |-> 0, contractionMrr |-> 0,
        churnedMrr |-> 0, magicNumber |-> <<"undefined">>]
  ELSE
  LET sortedData == SortRowsByMonth(rows)
      n == Len(sortedData)
      latest == sortedData[n]
      hasPrevious == n > 1
      previous == IF hasPrevious THEN sortedData[n - 1] ELSE latest
      mrr == latest.mrr
      customerCount == latest.customers
      momRatio == JsDiv(mrr - previous.mrr, previous.mrr)
      mom == IF ~hasPrevious THEN Rat(0, 1)
             ELSE IF IsRat(momRatio) THEN Rat(momRatio[1] * 100, momRatio[2])
             ELSE momRatio
      newMrr == latest.new_mrr
      expansionMrr == latest.expansion_mrr
      contractionMrr == latest.contraction_mrr
      churnedMrr == latest.churned_mrr
      nrr == IF hasPrevious /\ previous.mrr > 0
             THEN Rat(previous.mrr - churnedMrr + expansionMrr - contractionMrr,
                      previous.mrr)
             ELSE Rat(1, 1)
      grr == IF hasPrevious /\ previous.mrr > 0
             THEN Rat(previous.mrr - contractionMrr - churnedMrr, previous.mrr)
             ELSE Rat(1, 1)
      \* (churnedMrr / (previous.mrr / previous.customers)) / previous.customers
      churnRate == IF hasPrevious /\ previous.customers > 0 /\ previous.mrr > 0
                   THEN Rat(churnedMrr, previous.mrr)
                   ELSE Rat(0, 1)
      magicNumber == IF hasPrevious /\ previous.mrr > 0
                     THEN Rat(newMrr + expansionMrr - contractionMrr - churnedMrr,
                              previous.mrr)
                     ELSE <<"undefined">>
  IN [mrr |-> mrr, arr |-> mrr * 12, customerCount |-> customerCount,
      mom |-> mom, nrr |-> MaxZero(nrr), grr |-> MaxZero(grr),
      churnRate |-> Clamp01(churnRate),
      newMrr |-> newMrr, expansionMrr |-> expansionMrr,
      contractionMrr |-> contractionMrr, churnedMrr |-> churnedMrr,
      magicNumber |-> magicNumber]

\* calculateMetricsSeries: the engine applied to every prefix of the sorted rows
calculateMetricsSeries(rows) ==
  LET sortedData == SortRowsByMonth(rows)
  IN [i \in 1..Len(sortedData) |->
        [month |-> sortedData[i].month,
         m |-> libCalculateMetrics(SubSeq(sortedData, 1, i))]]

(***************************************************************************)
(* Magic Number of the dashboard components.  A value is counted in        *)
(* hundredths, as the components round it: Math.round(x * 100) / 100.      *)
(***************************************************************************)
\* the sentinel the components give when nothing was lost and something won
MagicSentinel == 5

\* Math.round((num / den) * 100) / 100 counted in hundredths, den > 0;
\* Math.round rounds halves upwards
RoundHundredths(num, den) == (2 * num * 100 + den) \div (2 * den)

\* lostMRR > 0 ? netNewMRR / lostMRR : netNewMRR > 0 ? 5 : 0, then rounded
MagicNumberOf(item) ==
  LET netNewMRR == item.newMRR + item.expansionMRR
      lostMRR == item.churnedMRR + item.contractionMRR
  IN IF lostMRR > 0 THEN RoundHundredths(netNewMRR, lostMRR)
     ELSE IF netNewMRR > 0 THEN MagicSentinel * 100 ELSE 0

\* MagicNumberChart: chartData[index].magicNumber, 0 at index 0
MagicNumberChart(chart) ==
  [index \in DOMAIN chart |-> IF index = 1 THEN 0 ELSE MagicNumberOf(chart[index])]

\* SummaryKPITable: tableData[index].magicNumber, the same at every index
SummaryKPITable(chart) ==
  [index \in DOMAIN chart |-> MagicNumberOf(chart[index])]

(***************************************************************************)
(* The monthly_metrics table and the two routes that write it.  The table  *)
(* is a function from the keys (company_id, month) that hold a row to the  *)
(* row.  A MonthlyMetric is a record of the fields it carries: an optional *)
(* field that is missing is no field of the record.                        *)
(***************************************************************************)
\* metric.field || 0
OrZero(metric, field) == IF field \in DOMAIN metric THEN metric[field] ELSE 0

\* the row the upload route sends for a metric of parsedData
UploadPayload(companyId, metric) ==
  [company_id |-> companyId, month |-> metric.month,
   mrr |-> OrZero(metric, "mrr"),
   new_mrr |-> OrZero(metric, "new_mrr"),
   expansion_mrr |-> OrZero(metric, "expansion_mrr"),
   contraction_mrr |-> OrZero(metric, "contraction_mrr"),
   churned_mrr |-> OrZero(metric, "churned_mrr"),
   customers |-> OrZero(metric, "customers")]

\* the row the metrics route sends: mrr is taken as it is
MetricsPayload(companyId, metric) ==
  [company_id |-> companyId, month |-> metric.month,
   mrr |-> metric.mrr,
   new_mrr |-> OrZero(metric, "new_mrr"),
   expansion_mrr |-> OrZero(metric, "expansion_mrr"),
   contraction_mrr |-> OrZero(metric, "contraction_mrr"),
   churned_mrr |-> OrZero(metric, "churned_mrr"),
   customers |-> OrZero(metric, "customers")]

\* onConflict: 'company_id,month'
KeyOf(row) == <<row.company_id, row.month>>
KeysOf(rows) == {KeyOf(rows[i]) : i \in DOMAIN rows}
\* one statement proposes the same key twice: the database rejects the
\* statement (ON CONFLICT DO UPDATE cannot affect a row a second time)
ProposesKeyTwice(rows) ==
  \E i, j \in DOMAIN rows : i < j /\ KeyOf(rows[i]) = KeyOf(rows[j])
RowFor(rows, k) == rows[CHOOSE i \in DOMAIN rows : KeyOf(rows[i]) = k]

\* upsert(rows, {onConflict: 'company_id,month', ignoreDuplicates: true}):
\* a row whose key is stored is left as it is
UpsertIgnoreDuplicates(table, rows) ==
  IF ProposesKeyTwice(rows) THEN [error |-> TRUE, table |-> table]
  ELSE [error |-> FALSE,
        table |-> [k \in DOMAIN table \cup KeysOf(rows) |->
                     IF k \in DOMAIN table THEN table[k] ELSE RowFor(rows, k)]]
\* upsert(rows, {onConflict: 'company_id,month', ignoreDuplicates: false}):
\* one statement; a row whose key is stored replaces every column sent
Upsert(table, rows) ==
  IF ProposesKeyTwice(rows) THEN [error |-> TRUE, table |-> table]
  ELSE [error |-> FALSE,
        table |-> [k \in DOMAIN table \cup KeysOf(rows) |->
                     IF k \in KeysOf(rows) THEN RowFor(rows, k) ELSE table[k]]]

RECURSIVE MonthsInOrder(_, _)
\* the keys of the Map the spreadsheet branch fills, in insertion order
MonthsInOrder(customerMonthData, seen) ==
  IF customerMonthData = <<>> THEN <<>>
  ELSE IF Head(customerMonthData).month \in seen
       THEN MonthsInOrder(Tail(customerMonthData), seen)
       ELSE <<Head(customerMonthData).month>> \o
            MonthsInOrder(Tail(customerMonthData), seen \cup {Head(customerMonthData).month})
RECURSIVE SumMrr(_, _)
SumMrr(customerMonthData, month) ==
  IF customerMonthData = <<>> THEN 0
  ELSE (IF Head(customerMonthData).month = month THEN Head(customerMonthData).mrr ELSE 0)
       + SumMrr(Tail(customerMonthData), month)
\* Array.from(monthlyMetrics.values()): per month the summed mrr and the
\* number of entries
AggregateByMonth(customerMonthData) ==
  LET months == MonthsInOrder(customerMonthData, {})
  IN [i \in DOMAIN months |->
        [month |-> months[i],
         mrr |-> SumMrr(customerMonthData, months[i]),
         customers |-> Cardinality({j \in DOMAIN customerMonthData :
                                      customerMonthData[j].month = months[i]}),
         new_mrr |-> 0, expansion_mrr |-> 0, contraction_mrr |-> 0,
         churned_mrr |-> 0]]

\* the table before any request, and no request
NoStore == <<>>
NoRequest ==
  [route |-> "none", companyId |-> "", rows |-> <<>>, status |-> 0, again |-> FALSE]
\* a request and its response status; again: the request before it sent the
\* same rows for the same company to the same route and was stored
Request(route, companyId, rows, status, again) ==
  [route |-> route, companyId |-> companyId, rows |-> rows, status |-> status,
   again |-> again]

\* the upload route from parsedData on: the table and the response status
StoreParsed(table, companyId, parsedData, jobError) ==
  IF Len(parsedData) = 0 THEN [table |-> table, status |-> 422]
  ELSE IF jobError THEN [table |-> table, status |-> 500]
  ELSE LET metricsToInsert == [i \in DOMAIN parsedData |->
                                 UploadPayload(companyId, parsedData[i])]
           written == Upsert(table, metricsToInsert)
       IN IF written.error THEN [table |-> table, status |-> 500]
          ELSE [table |-> written.table, status |-> 200]

\* POST of the upload route with a CSV file
uploadCsv(table, companyId, validationResult, jobError) ==
  IF ~validationResult.isValid THEN [table |-> table, status |-> 422]
  ELSE StoreParsed(table, companyId, validationResult.rows, jobError)

\* POST of the upload route with a spreadsheet
uploadSpreadsheet(table, companyId, parsed, jobError) ==
  IF parsed.status # "ok" THEN [table |-> table, status |-> 422]
  ELSE StoreParsed(table, companyId, AggregateByMonth(parsed.ledger), jobError)

\* POST of the metrics route
postMetrics(table, companyId, body) ==
  LET written == Upsert(table, [i \in DOMAIN body |-> MetricsPayload(companyId, body[i])])
  IN IF written.error THEN [table |-> table, status |-> 500]
     ELSE [table |-> written.table, status |-> 200]

(***************************************************************************)
(* DataStore (src/unnamed/part_003): the ledger and its metrics in the     *)
(* browser's localStorage.  An item is kept as the value it was written    *)
(* from: JSON.stringify and JSON.parse give back the records of a ledger   *)
(* and of its metrics, whose fields are texts and finite numbers.  A call  *)
(* of setItem or removeItem that throws leaves the storage as it was.      *)
(***************************************************************************)
DATA_KEY == "saasgrid_customer_data"
METRICS_KEY == "saasgrid_metrics_data"
NoStorage == <<>>

\* localStorage.setItem(key, JSON.stringify(value))
setItem(storage, key, value) ==
  [k \in DOMAIN storage \cup {key} |-> IF k = key THEN value ELSE storage[k]]
\* localStorage.removeItem(key)
removeItem(storage, key) == [k \in DOMAIN storage \ {key} |-> storage[k]]
\* const data = localStorage.getItem(key); return data ? JSON.parse(data) : []
getItemOrEmpty(storage, key) == IF key \in DOMAIN storage THEN storage[key] ELSE <<>>

\* saveCustomerData(data); throwsAt names the storage call that throws
saveCustomerData(storage, d, throwsAt) ==
  IF throwsAt = DATA_KEY THEN storage
  ELSE IF throwsAt = METRICS_KEY THEN setItem(storage, DATA_KEY, d)
  ELSE setItem(setItem(storage, DATA_KEY, d), METRICS_KEY, calculateMetrics(d))
\* clearData(); throwsAt names the storage call that throws
clearData(storage, throwsAt) ==
  IF throwsAt = DATA_KEY THEN storage
  ELSE IF throwsAt = METRICS_KEY THEN removeItem(storage, DATA_KEY)
  ELSE removeItem(removeItem(storage, DATA_KEY), METRICS_KEY)
getCustomerData(storage) == getItemOrEmpty(storage, DATA_KEY)
getMetrics(storage) == getItemOrEmpty(storage, METRICS_KEY)

(***************************************************************************)
(* Row-level validator (src/unnamed/part_008)                              *)
(* parse(text, {header: true}) gives one object per data row, keyed by the *)
(* trimmed, lower-cased headers; a cell is a text, or undefined when the    *)
(* row is shorter than the header.  Numbers are counted in tenths: the     *)
(* cell texts of the model have at most one decimal digit.                 *)
(***************************************************************************)
\* the header text of a field
FieldKey ==
  [month |-> <<"m", "o", "n", "t", "h">>, mrr |-> <<"m", "r", "r">>, customers |-> <<"c", "u", "s", "t", "o", "m", "e", "r", "s">>, new_mrr |-> <<"n", "e", "w", "_", "m", "r", "r">>,
   expansion_mrr |-> <<"e", "x", "p", "a", "n", "s", "i", "o", "n", "_", "m", "r", "r">>, contraction_mrr |-> <<"c", "o", "n", "t", "r", "a", "c", "t", "i", "o", "n", "_", "m", "r", "r">>, churned_mrr |-> <<"c", "h", "u", "r", "n", "e", "d", "_", "m", "r", "r">>]
requiredColumns == <<"month", "mrr">>
numericFields == <<"customers", "new_mrr", "expansion_mrr", "contraction_mrr", "churned_mrr">>
Dot == {"."}
\* Number(value) of a cell text: whole numbers and numbers with one decimal
\* digit, signed; the blank text is 0; any other text is NaN
ToNumber(s) ==
  LET t == trim(s)
      neg == t # <<>> /\ Head(t) = "-"
      u == IF t # <<>> /\ Head(t) \in {"-", "+"} THEN Tail(t) ELSE t
      sign == IF neg THEN -1 ELSE 1
  IN IF t = <<>> THEN [nan |-> FALSE, v |-> 0]
     ELSE IF RegexTest(<<Item(Digit, 1, Many)>>, u)
     THEN [nan |-> FALSE, v |-> sign * 10 * DigitsToInt(u)]
     ELSE IF RegexTest(<<Item(Digit, 1, Many), One(Dot), Item(Digit, 1, 1)>>, u)
     THEN [nan |-> FALSE,
           v |-> sign * (10 * DigitsToInt(SubSeq(u, 1, Len(u) - 2)) + DigitValue(u[Len(u)]))]
     ELSE [nan |-> TRUE, v |-> 0]
\* value !== undefined && value !== null && value !== ''
IsGiven(c) == c.t \notin {"undefined", "null"} /\ ~(c.t = "string" /\ c.s = <<>>)
\* /^\d{1,2}\/\d{4}$/
ReSlashMonthYear == <<Item(Digit, 1, 2), One(Slash), Item(Digit, 4, 4)>>
\* /^\d{1,2}\/\d{1,2}\/\d{4}$/
ReSlashDate == <<Item(Digit, 1, 2), One(Slash), Item(Digit, 1, 2), One(Slash),
                 Item(Digit, 4, 4)>>
FirstOfMonth == <<"-", "0", "1">>
RowError(row, column, message) ==
  [row |-> row, column |-> column, message |-> message, severity |-> "error"]
RowWarning(row, column, message) ==
  [row |-> row, column |-> column, message |-> message, severity |-> "warning"]

\* the month check of one row: the errors it records and the month it assigns
ValidateMonth(cell, rowNumber) ==
  IF Truthy(cell)
  THEN LET monthStr == trim(ToStr(cell))
       IN IF RegexTest(ReCanonical, monthStr)
          THEN [errors |-> <<>>, set |-> TRUE, month |-> monthStr \o FirstOfMonth]
          ELSE IF RegexTest(ReIsoDate, monthStr)
          THEN [errors |-> <<>>, set |-> TRUE,
                month |-> SubSeq(monthStr, 1, 7) \o FirstOfMonth]
          ELSE IF RegexTest(ReSlashMonthYear, monthStr)
          THEN [errors |-> <<>>, set |-> TRUE,
                month |-> SplitSlash(monthStr)[2] \o <<"-">>
                          \o padStart2(SplitSlash(monthStr)[1]) \o FirstOfMonth]
          ELSE IF RegexTest(ReSlashDate, monthStr)
          THEN [errors |-> <<>>, set |-> TRUE,
                month |-> SplitSlash(monthStr)[3] \o <<"-">>
                          \o padStart2(SplitSlash(monthStr)[1]) \o FirstOfMonth]
          ELSE [errors |-> <<RowError(rowNumber, "month", "Invalid month format")>>,
                set |-> FALSE, month |-> <<>>]
  ELSE [errors |-> <<RowError(rowNumber, "month", "Month is required")>>,
        set |-> FALSE, month |-> <<>>]

\* the check of a numeric cell that is given: not a number, negative, or kept
ValidateNumber(cell, field, rowNumber) ==
  IF ToNumber(ToStr(cell)).nan
  THEN [errors |-> <<RowError(rowNumber, field, "must be a valid number")>>,
        set |-> FALSE, v |-> 0]
  ELSE IF ToNumber(ToStr(cell)).v < 0
  THEN [errors |-> <<RowError(rowNumber, field, "cannot be negative")>>,
        set |-> FALSE, v |-> 0]
  ELSE [errors |-> <<>>, set |-> TRUE, v |-> ToNumber(ToStr(cell)).v]

\* the check of one field of a row: mrr is required, the others are optional
ValidateField(cell, field, rowNumber) ==
  IF IsGiven(cell) THEN ValidateNumber(cell, field, rowNumber)
  ELSE IF field = "mrr"
  THEN [errors |-> <<RowError(rowNumber, "mrr", "MRR is required")>>,
        set |-> FALSE, v |-> 0]
  ELSE [errors |-> <<>>, set |-> FALSE, v |-> 0]

RECURSIVE FlattenErrors(_, _)
\* the errors of the checks of the fields fs, in the order of fs
FlattenErrors(checks, fs) ==
  IF fs = <<>> THEN <<>> ELSE checks[Head(fs)].errors \o FlattenErrors(checks, Tail(fs))

\* the customers warning of one row
CustomersWarning(cell, rowNumber) ==
  IF IsGiven(cell) /\ ~ToNumber(ToStr(cell)).nan /\ ToNumber(ToStr(cell)).v % 10 # 0
  THEN <<RowWarning(rowNumber, "customers", "Customer count should be a whole number")>>
  ELSE <<>>

Abs(x) == IF x < 0 THEN -x ELSE x
\* the cross-field warning of one row; a field set to 0 is falsy
ComponentsWarning(checks, rowNumber) ==
  IF /\ \A f \in {"mrr", "new_mrr", "expansion_mrr", "contraction_mrr", "churned_mrr"} :
          checks[f].set /\ checks[f].v # 0
     /\ Abs(checks["new_mrr"].v + checks["expansion_mrr"].v
            - checks["contraction_mrr"].v - checks["churned_mrr"].v)
          > checks["mrr"].v * 2
  THEN <<RowWarning(rowNumber, "none", "MRR components seem unusually large")>>
  ELSE <<>>

\* processedRow: the fields the checks assigned
ProcessedRow(monthCheck, checks) ==
  [f \in {g \in DOMAIN FieldKey :
            IF g = "month" THEN monthCheck.set ELSE checks[g].set} |->
     IF f = "month" THEN [month |-> monthCheck.month, v |-> 0]
     ELSE [month |-> <<>>, v |-> checks[f].v]]

\* a row is accepted when its required columns recorded no error
RowAcceptedRequiredOnly(rowErrors) ==
  \A i \in DOMAIN rowErrors : rowErrors[i].column \notin {"month", "mrr"}
\* a row is accepted when no check of it recorded an error
RowAccepted(rowErrors) == Len(rowErrors) = 0

\* the end of one pass of the row loop, given the checks of the row
CloseRow(monthCheck, checks, rowErrors, customersCell, rowNumber) ==
  [errors |-> rowErrors,
   warnings |-> CustomersWarning(customersCell, rowNumber)
                \o ComponentsWarning(checks, rowNumber),
   rows |-> IF RowAccepted(rowErrors) THEN <<ProcessedRow(monthCheck, checks)>> ELSE <<>>]

\* the checks of the numeric fields of a row
FieldChecks(headers, row, rowNumber) ==
  [f \in {"mrr"} \cup Range(numericFields) |->
     ValidateField(RowGet(headers, row, FieldKey[f]), f, rowNumber)]

\* one pass of the row loop
ValidateRowChecked(monthCheck, checks, customersCell, rowNumber) ==
  CloseRow(monthCheck, checks,
           monthCheck.errors \o checks["mrr"].errors \o FlattenErrors(checks, numericFields),
           customersCell, rowNumber)
ValidateRow(headers, row, rowNumber) ==
  ValidateRowChecked(ValidateMonth(RowGet(headers, row, FieldKey["month"]), rowNumber),
                     FieldChecks(headers, row, rowNumber),
                     RowGet(headers, row, FieldKey["customers"]), rowNumber)

RECURSIVE ValidateRows(_, _, _)
\* parseResult.data.forEach((row, index) => ...), rowNumber = index + 2
ValidateRows(headers, parsed, index) ==
  IF index >= Len(parsed) THEN [errors |-> <<>>, warnings |-> <<>>, rows |-> <<>>]
  ELSE LET r == ValidateRow(headers, parsed[index + 1], index + 2)
           rest == ValidateRows(headers, parsed, index + 1)
       IN [errors |-> r.errors \o rest.errors,
           warnings |-> r.warnings \o rest.warnings,
           rows |-> r.rows \o rest.rows]

\* the header check: one row-0 error per required column that is missing
HeaderErrors(headers) ==
  LET missing(i) == ~\E h \in DOMAIN headers : toLowerCase(trim(headers[h])) = FieldKey[requiredColumns[i]]
      err(i) == IF missing(i) THEN <<RowError(0, requiredColumns[i], "Missing required column")>>
                ELSE <<>>
  IN err(1) \o err(2)

\* the result validateCsv returns, given the header errors and the row loop
ValidationResult(headerErrors, loop, totalRows) ==
  [isValid |-> Len(headerErrors \o loop.errors) = 0,
   errors |-> headerErrors \o loop.errors,
   warnings |-> loop.warnings,
   rows |-> loop.rows,
   summary |-> [totalRows |-> totalRows,
                validRows |-> Len(loop.rows),
                errorRows |-> totalRows - Len(loop.rows),
                warningRows |-> Len(loop.warnings)]]

\* validateCsv with its default options, on a text that parses without
\* reader errors
validateCsv(headers, parsed) ==
  IF Len(parsed) = 0
  THEN [isValid |-> FALSE,
        errors |-> <<[row |-> 0, column |-> "none", message |-> "No data found in CSV file",
                      severity |-> "error"]>>,
        warnings |-> <<>>, rows |-> <<>>,
        summary |-> [totalRows |-> 0, validRows |-> 0, errorRows |-> 1, warningRows |-> 0]]
  ELSE ValidationResult(HeaderErrors(headers), ValidateRows(headers, parsed, 0), Len(parsed))

(***************************************************************************)
(* Specification of the metrics engine: any ledger, then one computation   *)
(***************************************************************************)
Init ==
  /\ data \in Ledgers(MaxLedger)
  /\ metrics = <<>>
  /\ pc = "input"
  /\ file = NoUpload
  /\ currentYear \in {2025}
  /\ detected = "none"
  /\ outcome = NoOutcome
  /\ token = <<>>
  /\ normalized = NoResult
  /\ validation = NoValidation
  /\ store = NoStore
  /\ before = NoStore
  /\ upload = NoRequest
  /\ localStorage = NoStorage
  /\ extraction = NoExtractions
  /\ classification = NoClassification
  /\ idRun = NoIdRun
  /\ uploadJobs = NoJobs

Calculate ==
  /\ pc = "input"
  /\ metrics' = calculateMetrics(data)
  /\ pc' = "done"
  /\ UNCHANGED <<data, file, currentYear, detected, outcome, token, normalized, validation,
               store, before, upload, localStorage, extraction, classification, idRun, uploadJobs>>

Next == Calculate

Spec == Init /\ [][Next]_vars

(***************************************************************************)
(* Specification of the parser: any upload, then one parse                 *)
(***************************************************************************)
InitParse ==
  /\ data = <<>>
  /\ metrics = <<>>
  /\ pc = "input"
  /\ file \in CsvUploads(MaxCsvRows) \cup ExcelUploads(MaxExcelRows)
  /\ currentYear \in CurrentYears
  /\ detected = "none"
  /\ outcome = NoOutcome
  /\ token = <<>>
  /\ normalized = NoResult
  /\ validation = NoValidation
  /\ store = NoStore
  /\ before = NoStore
  /\ upload = NoRequest
  /\ localStorage = NoStorage
  /\ extraction = NoExtractions
  /\ classification = NoClassification
  /\ idRun = NoIdRun
  /\ uploadJobs = NoJobs

\* parseCSV: the complete callback of a parse without reader errors
ParseCSV ==
  /\ pc = "input"
  /\ file.kind = "csv"
  /\ \E timestamp \in Timestamps :
       outcome' \in transformData(file.headers, file.rows, currentYear, timestamp)
  /\ detected' = IF Len(file.rows) = 0 THEN "none"
                 ELSE detectDataFormat(ObjectKeys(file.headers), currentYear).format
  /\ pc' = "done"
  /\ UNCHANGED <<data, metrics, file, currentYear, token, normalized, validation,
               store, before, upload, localStorage, extraction, classification, idRun, uploadJobs>>

\* parseExcel: the onload callback
ParseExcel ==
  /\ pc = "input"
  /\ file.kind = "excel"
  /\ outcome' = transformExcelData(file.rows)
  /\ detected' = "none"
  /\ pc' = "done"
  /\ UNCHANGED <<data, metrics, file, currentYear, token, normalized, validation,
               store, before, upload, localStorage, extraction, classification, idRun, uploadJobs>>

NextParse == ParseCSV \/ ParseExcel

SpecParse == InitParse /\ [][NextParse]_vars

(***************************************************************************)
(* Specification of the period normalizer: any token, then one call        *)
(***************************************************************************)
\* the texts the tokens are built from
YearTexts4 == {<<"1", "9", "8", "9">>, <<"2", "0", "2", "3">>, <<"2", "1", "0", "0">>}
YearTexts2 == {<<"0", "0">>, <<"2", "3">>, <<"4", "5">>, <<"4", "6">>, <<"4", "7">>, <<"9", "9">>}
MonthTexts == {<<"0">>, <<"1">>, <<"0", "0">>, <<"0", "1">>, <<"0", "9">>, <<"1", "2">>, <<"1", "3">>}
MonthNameTexts == {<<"J", "a", "n">>, <<"D", "e", "c">>, <<"S", "e", "p">>, <<"J", "a", "n", "u", "a", "r", "y">>, <<"d", "e", "c", "e", "m", "b", "e", "r">>}
QuarterTexts == {<<"Q", "1">>, <<"Q", "2">>, <<"Q", "3">>, <<"Q", "4">>}
SerialTexts == {<<"3", "6", "5", "2", "6">>, <<"4", "4", "9", "2", "7">>, <<"4", "7", "4", "8", "2">>}
\* the tokens of the period grammar: YYYY-MM, serial, Mon/Month + year,
\* MM/YYYY or MM-YYYY, YYYY/MM or YYYY-M, Q1..Q4 + year
PeriodTokens ==
  {y \o <<"-">> \o m : y \in YearTexts4, m \in {t \in MonthTexts : Len(t) = 2}}
  \cup SerialTexts
  \cup {n \o <<sep>> \o y : n \in MonthNameTexts, sep \in SlashDashSpace,
                           y \in YearTexts2 \cup YearTexts4}
  \cup {m \o <<sep>> \o y : m \in MonthTexts, sep \in SlashDash, y \in YearTexts4}
  \cup {y \o <<sep>> \o m : y \in YearTexts4, sep \in SlashDash, m \in MonthTexts}
  \cup {q \o <<sep>> \o y : q \in QuarterTexts, sep \in SlashDashSpace, y \in YearTexts4}
\* the tokens formatMonth settles by its own patterns, without new Date
FormatMonthTokens ==
  {t \in PeriodTokens :
     RegexTest(ReCanonical, t) \/ RegexTest(ReMonthYear, t) \/ RegexTest(ReYearMonth, t)}
\* the year texts handed to normalizeYear
YearTexts == YearTexts2 \cup YearTexts4 \cup {<<"5">>, <<"1", "2", "3">>, <<"2", "0", "2", "3", "5">>}

InitPeriod ==
  /\ data = <<>>
  /\ metrics = <<>>
  /\ pc = "input"
  /\ file = NoUpload
  /\ currentYear \in CurrentYears
  /\ detected = "none"
  /\ outcome = NoOutcome
  /\ token \in PeriodTokens \cup YearTexts
  /\ normalized = NoResult
  /\ validation = NoValidation
  /\ store = NoStore
  /\ before = NoStore
  /\ upload = NoRequest
  /\ localStorage = NoStorage
  /\ extraction = NoExtractions
  /\ classification = NoClassification
  /\ idRun = NoIdRun
  /\ uploadJobs = NoJobs

\* one call of parseMonthHeader
ParseMonthHeader ==
  /\ pc = "input"
  /\ token \in PeriodTokens
  /\ normalized' = [by |-> "parseMonthHeader",
                    ok |-> parseMonthHeader(token, currentYear).ok,
                    v |-> parseMonthHeader(token, currentYear).v]
  /\ pc' = "done"
  /\ UNCHANGED <<data, metrics, file, currentYear, detected, outcome, token, validation,
               store, before, upload, localStorage, extraction, classification, idRun, uploadJobs>>

\* one call of formatMonth
FormatMonth ==
  /\ pc = "input"
  /\ token \in FormatMonthTokens
  /\ normalized' = [by |-> "formatMonth", ok |-> formatMonth(token).ok,
                    v |-> formatMonth(token).v]
  /\ pc' = "done"
  /\ UNCHANGED <<data, metrics, file, currentYear, detected, outcome, token, validation,
               store, before, upload, localStorage, extraction, classification, idRun, uploadJobs>>

\* one call of normalizeYear
NormalizeYear ==
  /\ pc = "input"
  /\ token \in YearTexts
  /\ normalized' = [by |-> "normalizeYear", ok |-> normalizeYear(token, currentYear).ok,
                    v |-> normalizeYear(token, currentYear).v]
  /\ pc' = "done"
  /\ UNCHANGED <<data, metrics, file, currentYear, detected, outcome, token, validation,
               store, before, upload, localStorage, extraction, classification, idRun, uploadJobs>>

\* the same normalizer applied to the value it returned
Renormalize ==
  /\ pc = "done"
  /\ normalized.ok
  /\ normalized.by \in {"parseMonthHeader", "formatMonth"}
  /\ token' = normalized.v
  /\ normalized' =
       IF normalized.by = "parseMonthHeader"
       THEN [by |-> "parseMonthHeader",
             ok |-> parseMonthHeader(normalized.v, currentYear).ok,
             v |-> parseMonthHeader(normalized.v, currentYear).v]
       ELSE [by |-> "formatMonth", ok |-> formatMonth(normalized.v).ok,
             v |-> formatMonth(normalized.v).v]
  /\ pc' = "again"
  /\ UNCHANGED <<data, metrics, file, currentYear, detected, outcome, validation,
               store, before, upload, localStorage, extraction, classification, idRun, uploadJobs>>

NextPeriod == ParseMonthHeader \/ FormatMonth \/ NormalizeYear \/ Renormalize

SpecPeriod == InitPeriod /\ [][NextPeriod]_vars

(***************************************************************************)
(* Specification of the validator: any parsed text, then one validation    *)
(***************************************************************************)
MaxValidatorRows == 2
\* a text with the two required columns
BasicCsv ==
  [headers |-> <<<<"m", "o", "n", "t", "h">>, <<"m", "r", "r">>>>,
   pools |-> <<{Str(<<"2", "0", "2", "3", "-", "0", "1">>), Str(<<"1", "/", "2", "0", "2", "3">>), Str(<<"0", "1", "/", "1", "5", "/", "2", "0", "2", "3">>), Str(<<"2", "0", "2", "3", "-", "0", "1", "-", "1", "5">>), Str(<<"f", "o", "o">>), Str(<<>>)},
              {Str(<<"1", "0", "0">>), Str(<<"-", "5">>), Str(<<"a", "b", "c">>), Str(<<>>), Str(<<"0">>)}>>]
\* a text with the optional columns
DetailedCsv ==
  [headers |-> <<<<"m", "o", "n", "t", "h">>, <<"m", "r", "r">>, <<"c", "u", "s", "t", "o", "m", "e", "r", "s">>, <<"n", "e", "w", "_", "m", "r", "r">>, <<"e", "x", "p", "a", "n", "s", "i", "o", "n", "_", "m", "r", "r">>, <<"c", "o", "n", "t", "r", "a", "c", "t", "i", "o", "n", "_", "m", "r", "r">>, <<"c", "h", "u", "r", "n", "e", "d", "_", "m", "r", "r">>>>,
   pools |-> <<{Str(<<"2", "0", "2", "3", "-", "0", "1">>)},
              {Str(<<"1", "0", "0">>)},
              {Str(<<>>), Str(<<"1", "0">>), Str(<<"1", ".", "5">>), Str(<<"x">>)},
              {Str(<<>>), Str(<<"5", "0", "0">>), Str(<<"-", "1">>)},
              {Str(<<"1", "0">>)},
              {Str(<<"1", "0">>)},
              {Str(<<"1", "0">>), Str(<<>>), Undefined}>>]
\* a text without the mrr column
MonthOnlyCsv ==
  [headers |-> <<<<"m", "o", "n", "t", "h">>>>,
   pools |-> <<{Str(<<"2", "0", "2", "3", "-", "0", "1">>), Str(<<"f", "o", "o">>)}>>]
ValidatorCsvs == {BasicCsv, DetailedCsv, MonthOnlyCsv}
ValidatorUploads(maxRows) ==
  UNION {{[kind |-> "validate", headers |-> l.headers, rows |-> rows] :
            rows \in RowSeqs(Product(l.pools), maxRows)} : l \in ValidatorCsvs}

InitValidate ==
  /\ data = <<>>
  /\ metrics = <<>>
  /\ pc = "input"
  /\ file \in ValidatorUploads(MaxValidatorRows)
  /\ currentYear \in {2025}
  /\ detected = "none"
  /\ outcome = NoOutcome
  /\ token = <<>>
  /\ normalized = NoResult
  /\ validation = NoValidation
  /\ store = NoStore
  /\ before = NoStore
  /\ upload = NoRequest
  /\ localStorage = NoStorage
  /\ extraction = NoExtractions
  /\ classification = NoClassification
  /\ idRun = NoIdRun
  /\ uploadJobs = NoJobs

\* one call of validateCsv
ValidateCsv ==
  /\ pc = "input"
  /\ file.kind = "validate"
  /\ validation' = validateCsv(file.headers, file.rows)
  /\ pc' = "done"
  /\ UNCHANGED <<data, metrics, file, currentYear, detected, outcome, token, normalized,
               store, before, upload, localStorage, extraction, classification, idRun, uploadJobs>>

NextValidate == ValidateCsv

SpecValidate == InitValidate /\ [][NextValidate]_vars

(***************************************************************************)
(* Specification of the store: requests to the two routes, one at a time   *)
(***************************************************************************)
MaxBatchRows == 2

CompanyIds == {"c1", "c2"}
\* months as the validator writes them, and as formatMonth writes them
StoreMonths == {"2023-01-01", "2023-02-01"}
SheetMonths == {"2023-01"}
\* the rows the validator accepts: the fields the text gave
MetricRows ==
  {[month |-> m, mrr |-> 100, new_mrr |-> 50] : m \in StoreMonths}
    \cup {[month |-> "2023-01-01", mrr |-> 200]}
MetricBatches == UNION {[1..n -> MetricRows] : n \in 1..MaxBatchRows}
\* what validateCsv hands the route: a rejected text, or accepted rows
CsvValidations ==
  {[isValid |-> FALSE, rows |-> <<>>]}
    \cup {[isValid |-> TRUE, rows |-> b] : b \in MetricBatches}
\* what parseSpreadsheet hands the route: a thrown error, or a ledger
SheetEntries == {Entry(c, c, m, 100) : c \in {"A", "B"}, m \in SheetMonths}
SheetOutcomes ==
  {[status |-> "Error", ledger |-> <<>>]}
    \cup {[status |-> "ok", ledger |-> l] :
            l \in UNION {[1..n -> SheetEntries] : n \in 1..MaxBatchRows}}

InitStore ==
  /\ data = <<>>
  /\ metrics = <<>>
  /\ pc = "serving"
  /\ file = NoUpload
  /\ currentYear \in {2025}
  /\ detected = "none"
  /\ outcome = NoOutcome
  /\ token = <<>>
  /\ normalized = NoResult
  /\ validation = NoValidation
  /\ store = NoStore
  /\ before = NoStore
  /\ upload = NoRequest
  /\ localStorage = NoStorage
  /\ extraction = NoExtractions
  /\ classification = NoClassification
  /\ idRun = NoIdRun
  /\ uploadJobs = NoJobs

Answer(route, companyId, rows, result) ==
  /\ store' = result.table
  /\ before' = store
  /\ upload' = Request(route, companyId, rows, result.status,
                       /\ upload.status = 200
                       /\ upload.route = route
                       /\ upload.companyId = companyId
                       /\ upload.rows = rows)
  /\ UNCHANGED <<data, metrics, pc, file, currentYear, detected, outcome, token,
                 normalized, validation, localStorage, extraction, classification, idRun, uploadJobs>>

UploadCsv ==
  \E companyId \in CompanyIds, validationResult \in CsvValidations, jobError \in BOOLEAN :
    Answer("upload", companyId, validationResult.rows,
           uploadCsv(store, companyId, validationResult, jobError))

UploadSpreadsheet ==
  \E companyId \in CompanyIds, parsed \in SheetOutcomes, jobError \in BOOLEAN :
    Answer("upload", companyId,
           IF parsed.status = "ok" THEN AggregateByMonth(parsed.ledger) ELSE <<>>,
           uploadSpreadsheet(store, companyId, parsed, jobError))

PostMetrics ==
  \E companyId \in CompanyIds, body \in MetricBatches :
    Answer("metrics", companyId, body, postMetrics(store, companyId, body))

NextStore == UploadCsv \/ UploadSpreadsheet \/ PostMetrics

SpecStore == InitStore /\ [][NextStore]_vars

(***************************************************************************)
(* Specification of the DataStore: saves and clears, one at a time         *)
(***************************************************************************)
MaxSavedLedger == 1
\* the storage call of a save or clear that throws, if one does
Throws == {"none", DATA_KEY, METRICS_KEY}

InitDataStore ==
  /\ data = <<>>
  /\ metrics = <<>>
  /\ pc = "stored"
  /\ file = NoUpload
  /\ currentYear \in {2025}
  /\ detected = "none"
  /\ outcome = NoOutcome
  /\ token = <<>>
  /\ normalized = NoResult
  /\ validation = NoValidation
  /\ store = NoStore
  /\ before = NoStore
  /\ upload = NoRequest
  /\ localStorage = NoStorage
  /\ extraction = NoExtractions
  /\ classification = NoClassification
  /\ idRun = NoIdRun
  /\ uploadJobs = NoJobs

SaveCustomerData ==
  \E d \in Ledgers(MaxSavedLedger), throwsAt \in Throws :
    /\ localStorage' = saveCustomerData(localStorage, d, throwsAt)
    /\ UNCHANGED <<data, metrics, pc, file, currentYear, detected, outcome, token,
                   normalized, validation, store, before, upload, extraction, classification, idRun, uploadJobs>>

ClearData ==
  \E throwsAt \in Throws :
    /\ localStorage' = clearData(localStorage, throwsAt)
    /\ UNCHANGED <<data, metrics, pc, file, currentYear, detected, outcome, token,
                   normalized, validation, store, before, upload, extraction, classification, idRun, uploadJobs>>

NextDataStore == SaveCustomerData \/ ClearData

SpecDataStore == InitDataStore /\ [][NextDataStore]_vars

(***************************************************************************)
(* Specification of concurrent extractions: two wide-format uploads whose  *)
(* row loops advance one row at a time, in any order.  result and          *)
(* existingIds are locals of transformWideFormatData: each extraction has  *)
(* its own.                                                                *)
(***************************************************************************)
MaxConcurrentRows == 2
Extractions == {1, 2}
\* customers as rows, no id column: every id is generated from the name
ConcurrentLayout ==
  [headers |-> <<<<"C", "u", "s", "t", "o", "m", "e", "r">>, <<"J", "a", "n", "/", "2", "3">>, <<"F", "e", "b", "/", "2", "3">>, <<"M", "a", "r", "/", "2", "3">>>>,
   pools |-> <<{Str(<<"A", "c", "m", "e", " ", "C", "o", "r", "p">>), Str(<<"B", "e", "t", "a">>)},
              {Str(<<"1", "0", "0">>)},
              {Str(<<"1", "2", "0">>)},
              {Str(<<>>)}>>]
ConcurrentUploads ==
  {[kind |-> "csv", headers |-> ConcurrentLayout.headers, rows |-> rows] :
     rows \in UNION {[1..k -> Product(ConcurrentLayout.pools)] : k \in 1..MaxConcurrentRows}}
\* an extraction that has not begun
NewExtraction(upload_) ==
  [file |-> upload_, sorted |-> <<>>, customerColumns |-> <<>>, rowIndex |-> 0,
   existingIds |-> {}, result |-> <<>>, pc |-> "new", returned |-> NoOutcome,
   interleaved |-> FALSE]

InitConcurrent ==
  /\ data = <<>>
  /\ metrics = <<>>
  /\ pc = "extracting"
  /\ file = NoUpload
  /\ currentYear \in {2025}
  /\ detected = "none"
  /\ outcome = NoOutcome
  /\ token = <<>>
  /\ normalized = NoResult
  /\ validation = NoValidation
  /\ store = NoStore
  /\ before = NoStore
  /\ upload = NoRequest
  /\ localStorage = NoStorage
  /\ classification = NoClassification
  /\ idRun = NoIdRun
  /\ uploadJobs = NoJobs
  /\ extraction \in {[p \in Extractions |-> NewExtraction(f[p])] :
                       f \in [Extractions -> ConcurrentUploads]}

\* another extraction is between two rows of its loop
OtherInLoop(p) ==
  \E q \in Extractions \ {p} :
    /\ extraction[q].pc = "rows"
    /\ extraction[q].rowIndex > 0
    /\ extraction[q].rowIndex < Len(extraction[q].file.rows)

\* extraction p with the detection result: in the row loop, or rejected
Begun(e, detection, order, timestamp) ==
  IF detection.format = "wide"
  THEN [e EXCEPT !.sorted = order, !.customerColumns = detection.customerColumns,
                 !.pc = "rows"]
  ELSE [e EXCEPT !.pc = "done",
                 !.returned = CHOOSE o \in TransformDetected(e.file.headers, e.file.rows,
                                             detection, currentYear, timestamp) : TRUE]
\* the month orders sortMonthHeaders can give for a detection
OrdersOf(detection) ==
  IF detection.format = "wide" THEN sortMonthHeaders(detection.monthColumns, currentYear)
  ELSE {<<>>}
BeginWith(p, detection) ==
  \E order \in OrdersOf(detection), timestamp \in Timestamps :
    extraction' = [extraction EXCEPT ![p] = Begun(extraction[p], detection, order, timestamp)]
\* transformData up to the row loop: detection and the sorted month columns
BeginExtraction(p) ==
  /\ extraction[p].pc = "new"
  /\ BeginWith(p, detectDataFormat(ObjectKeys(extraction[p].file.headers), currentYear))
  /\ UNCHANGED <<data, metrics, pc, file, currentYear, detected, outcome, token,
                 normalized, validation, store, before, upload, localStorage, classification, idRun, uploadJobs>>

\* extraction e after a pass of its loop gave step
AfterRow(e, step, seen, interleaved) ==
  [e EXCEPT !.rowIndex = e.rowIndex + 1,
            !.result = e.result \o step.entries,
            !.existingIds = e.existingIds \cup (step.ids \ seen),
            !.interleaved = e.interleaved \/ interleaved]
\* one pass of the row loop of transformWideFormatData
ExtractRow(p) ==
  /\ extraction[p].pc = "rows"
  /\ extraction[p].rowIndex < Len(extraction[p].file.rows)
  /\ \E timestamp \in Timestamps :
       extraction' = [extraction EXCEPT ![p] =
         AfterRow(extraction[p],
                  WideRow(extraction[p].file.headers,
                          extraction[p].file.rows[extraction[p].rowIndex + 1],
                          extraction[p].sorted, extraction[p].customerColumns,
                          ExistingIdsOf(extraction, p), currentYear, timestamp),
                  ExistingIdsOf(extraction, p), OtherInLoop(p))]
  /\ UNCHANGED <<data, metrics, pc, file, currentYear, detected, outcome, token,
                 normalized, validation, store, before, upload, localStorage, classification, idRun, uploadJobs>>

\* the end of transformWideFormatData: the ledger, or no valid data
ReturnExtraction(p) ==
  /\ extraction[p].pc = "rows"
  /\ extraction[p].rowIndex = Len(extraction[p].file.rows)
  /\ extraction' = [extraction EXCEPT ![p] =
       [extraction[p] EXCEPT
          !.pc = "done",
          !.returned = IF Len(extraction[p].result) = 0 THEN DataFormatError(3)
                       ELSE Returned(extraction[p].result)]]
  /\ UNCHANGED <<data, metrics, pc, file, currentYear, detected, outcome, token,
                 normalized, validation, store, before, upload, localStorage, classification, idRun, uploadJobs>>

NextConcurrent ==
  \E p \in Extractions : BeginExtraction(p) \/ ExtractRow(p) \/ ReturnExtraction(p)

SpecConcurrent == InitConcurrent /\ [][NextConcurrent]_vars

(***************************************************************************)
(* detectDataFormat over header rows (SpecDetect)                          *)
(***************************************************************************)
MaxRecognized == 4
MaxLoose == 4
MaxOther == 10

\* headers findMonthColumns recognizes
RecognizedHeaders ==
  <<<<"J", "a", "n", "/", "2", "3">>,
    <<"F", "e", "b", "/", "2", "3">>,
    <<"M", "a", "r", "/", "2", "3">>,
    <<"A", "p", "r", "/", "2", "3">>,
    <<"M", "a", "y", "/", "2", "3">>>>
\* headers of the loose date-like shape that parseMonthHeader rejects
LooseHeaders ==
  <<<<"F", "o", "o", "/", "2", "3">>,
    <<"B", "a", "r", "/", "2", "3">>,
    <<"B", "a", "z", "/", "2", "3">>,
    <<"Q", "u", "x", "/", "2", "3">>,
    <<"Z", "e", "d", "/", "2", "3">>>>
\* headers with no signal at all
OtherHeaders ==
  <<<<"P", "l", "a", "n">>,
    <<"R", "e", "g", "i", "o", "n">>,
    <<"O", "w", "n", "e", "r">>,
    <<"N", "o", "t", "e", "s">>,
    <<"T", "i", "e", "r">>,
    <<"S", "e", "a", "t", "s">>,
    <<"S", "t", "a", "t", "u", "s">>,
    <<"S", "o", "u", "r", "c", "e">>,
    <<"S", "e", "g", "m", "e", "n", "t">>,
    <<"C", "o", "u", "n", "t", "r", "y">>,
    <<"C", "u", "r", "r", "e", "n", "c", "y">>>>
IdentityHeader == <<"C", "u", "s", "t", "o", "m", "e", "r">>
LongHeader == <<"m", "r", "r">>

FirstOf(pool, n) == SubSeq(pool, 1, IF n < Len(pool) THEN n ELSE Len(pool))

HeaderRows ==
  {<<IdentityHeader>> \o FirstOf(RecognizedHeaders, r) \o FirstOf(LooseHeaders, l)
     \o FirstOf(OtherHeaders, o) \o (IF blank THEN <<<<>>>> ELSE <<>>)
     \o (IF long THEN <<LongHeader>> ELSE <<>>) :
     r \in 0..MaxRecognized, l \in 0..MaxLoose, o \in 0..MaxOther,
     blank \in BOOLEAN, long \in BOOLEAN}

InitDetect ==
  /\ data = <<>>
  /\ metrics = <<>>
  /\ pc = "headers"
  /\ file = NoUpload
  /\ currentYear \in {2025}
  /\ detected = "none"
  /\ outcome = NoOutcome
  /\ token = <<>>
  /\ normalized = NoResult
  /\ validation = NoValidation
  /\ store = NoStore
  /\ before = NoStore
  /\ upload = NoRequest
  /\ localStorage = NoStorage
  /\ extraction = NoExtractions
  /\ classification \in {[headers |-> h, done |-> FALSE] : h \in HeaderRows}
  /\ idRun = NoIdRun
  /\ uploadJobs = NoJobs

Classified(headers, result) == [headers |-> headers, done |-> TRUE, result |-> result]

\* one call of detectDataFormat on the header row
DetectDataFormat ==
  /\ pc = "headers"
  /\ ~classification.done
  /\ classification' = Classified(classification.headers,
                                  detectDataFormat(classification.headers, currentYear))
  /\ pc' = "done"
  /\ UNCHANGED <<data, metrics, file, currentYear, detected, outcome, token, normalized,
                 validation, store, before, upload, localStorage, extraction, idRun, uploadJobs>>

NextDetect == DetectDataFormat

SpecDetect == InitDetect /\ [][NextDetect]_vars

(***************************************************************************)
(* generateCustomerId over one set of assigned ids (SpecIds)               *)
(***************************************************************************)
MaxIdCalls == 3

\* customer names of the rows: two with the base id 'acme', one whose base id
\* is the first suffixed id of the others, one without a letter or digit
IdNames == {<<"A", "c", "m", "e">>, <<"A", "C", "M", "E", "!">>, <<"A", "c", "m", "e", " ", "1">>, <<"?", "?">>}
\* Date.now() at the calls: two readings, both beyond every counter suffix
IdClock == {MaxIdCounter + 777, MaxIdCounter + 778}
\* the set after `n` rows named 'Acme': the base id and its first n - 1 suffixes
AfterRowsNamed(name, n) ==
  IF n = 0 THEN {}
  ELSE {BaseId(name)} \cup {WithCounter(BaseId(name), k) : k \in 1..(n - 1)}
\* how many rows of one name came before: none, or enough to be at the cap
RowsBefore == {0, MaxIdCounter - 1, MaxIdCounter}

InitIds ==
  /\ data = <<>>
  /\ metrics = <<>>
  /\ pc = "ids"
  /\ file = NoUpload
  /\ currentYear \in {2025}
  /\ detected = "none"
  /\ outcome = NoOutcome
  /\ token = <<>>
  /\ normalized = NoResult
  /\ validation = NoValidation
  /\ store = NoStore
  /\ before = NoStore
  /\ upload = NoRequest
  /\ localStorage = NoStorage
  /\ extraction = NoExtractions
  /\ classification = NoClassification
  /\ idRun \in {[existingIds |-> AfterRowsNamed(<<"A", "c", "m", "e">>, n), assigned |-> <<>>] :
                  n \in RowsBefore}
  /\ uploadJobs = NoJobs

\* what one call leaves: the id is added to the set and handed to the row
Generated(run, customerName, finalId) ==
  [existingIds |-> run.existingIds \cup {finalId},
   assigned |-> Append(run.assigned,
                       [name |-> customerName, id |-> finalId,
                        fresh |-> finalId \notin run.existingIds,
                        taken |-> run.existingIds])]

\* one call of generateCustomerId for the next row
GenerateCustomerId ==
  /\ pc = "ids"
  /\ Len(idRun.assigned) < MaxIdCalls
  /\ \E customerName \in IdNames, timestamp \in IdClock :
       idRun' = Generated(idRun, customerName,
                          generateCustomerId(customerName, idRun.existingIds, timestamp))
  /\ UNCHANGED <<data, metrics, pc, file, currentYear, detected, outcome, token, normalized,
                 validation, store, before, upload, localStorage, extraction, classification, uploadJobs>>

NextIds == GenerateCustomerId

SpecIds == InitIds /\ [][NextIds]_vars

(***************************************************************************)
(* The upload route with its upload_jobs table (SpecJobs).  A call to the  *)
(* database answers with an error or without one; the route reads the      *)
(* answer of insert and upsert and does not read the answer of update.     *)
(***************************************************************************)
MaxJobs == 2

\* upload_jobs.insert({..., status: 'processing'}).select().single()
InsertJob(jobs) ==
  Append(jobs, [id |-> Len(jobs) + 1, status |-> "processing", written |-> FALSE])
\* upload_jobs.update({status, ...}).eq('id', id): an update that answers
\* with an error leaves the row as it was
UpdateJob(jobs, id, status, updateError) ==
  IF updateError THEN jobs ELSE [jobs EXCEPT ![id].status = status]
\* the response and what the request did, as the claims read it
Responded(status, reason, jobId, upserted) ==
  [status |-> status, reason |-> reason, jobId |-> jobId, upserted |-> upserted]

\* the route from the insert of the job on
StoreWithJob(table, jobs, companyId, parsedData, db) ==
  LET id == Len(jobs) + 1
      written == Upsert(table, [i \in DOMAIN parsedData |->
                                  UploadPayload(companyId, parsedData[i])])
  IN IF db.jobError
     THEN [table |-> table, jobs |-> jobs,
           response |-> Responded(500, "job", 0, FALSE)]
     ELSE IF written.error \/ db.metricsError
     THEN [table |-> table,
           jobs |-> UpdateJob(InsertJob(jobs), id, "failed", db.updateError),
           response |-> Responded(500, "metrics", id, FALSE)]
     ELSE [table |-> written.table,
           jobs |-> UpdateJob([InsertJob(jobs) EXCEPT ![id].written = TRUE],
                              id, "completed", db.updateError),
           response |-> Responded(200, "success", id, TRUE)]

\* the checks of the route without the test of validationResult.isValid
RejectionWithoutValidation(request) ==
  IF ~request.file THEN Responded(400, "file", 0, FALSE)
  ELSE IF request.companyId = "" THEN Responded(400, "company", 0, FALSE)
  ELSE IF ~request.typeAllowed THEN Responded(400, "type", 0, FALSE)
  ELSE IF request.tooLarge THEN Responded(400, "size", 0, FALSE)
  ELSE IF ~request.user THEN Responded(401, "auth", 0, FALSE)
  ELSE IF ~request.owner THEN Responded(403, "owner", 0, FALSE)
  ELSE IF request.kind = "sheet" /\ request.parsed.status # "ok"
  THEN Responded(422, "parse", 0, FALSE)
  ELSE Responded(0, "none", 0, FALSE)

\* the route up to parsedData: the checks of the request, the user and the
\* company, then the validator or the spreadsheet parser
Rejection(request) ==
  IF ~request.file THEN Responded(400, "file", 0, FALSE)
  ELSE IF request.companyId = "" THEN Responded(400, "company", 0, FALSE)
  ELSE IF ~request.typeAllowed THEN Responded(400, "type", 0, FALSE)
  ELSE IF request.tooLarge THEN Responded(400, "size", 0, FALSE)
  ELSE IF ~request.user THEN Responded(401, "auth", 0, FALSE)
  ELSE IF ~request.owner THEN Responded(403, "owner", 0, FALSE)
  ELSE IF request.kind = "csv" /\ ~request.validationResult.isValid
  THEN Responded(422, "validation", 0, FALSE)
  ELSE IF request.kind = "sheet" /\ request.parsed.status # "ok"
  THEN Responded(422, "parse", 0, FALSE)
  ELSE Responded(0, "none", 0, FALSE)
ParsedData(request) ==
  IF request.kind = "csv" THEN request.validationResult.rows
  ELSE AggregateByMonth(request.parsed.ledger)

\* POST of the upload route
POST(table, jobs, request, db) ==
  IF Rejection(request).reason # "none"
  THEN [table |-> table, jobs |-> jobs, response |-> Rejection(request)]
  ELSE IF Len(ParsedData(request)) = 0
  THEN [table |-> table, jobs |-> jobs, response |-> Responded(422, "empty", 0, FALSE)]
  ELSE StoreWithJob(table, jobs, request.companyId, ParsedData(request), db)

\* what validateCsv hands the route: isValid is errors.length === 0, and rows
\* holds the valid rows also when other rows have errors
JobValidations ==
  {[isValid |-> errors = 0, rows |-> b] : errors \in {0, 1}, b \in MetricBatches}
    \cup {[isValid |-> FALSE, rows |-> <<>>]}
\* what parseSpreadsheet hands the route; transformExcelData can return an
\* empty ledger
JobSheets == SheetOutcomes \cup {[status |-> "ok", ledger |-> <<>>]}
Defects == {"none", "file", "company", "type", "size", "auth", "owner"}
JobRequest(defect, kind, validationResult, parsed) ==
  [file |-> defect # "file",
   companyId |-> IF defect = "company" THEN "" ELSE "c1",
   typeAllowed |-> defect # "type",
   tooLarge |-> defect = "size",
   user |-> defect # "auth",
   owner |-> defect # "owner",
   kind |-> kind, validationResult |-> validationResult, parsed |-> parsed]
\* every content without a defect of the request, and every defect with a
\* content the route would store
NoSheet == [status |-> "Error", ledger |-> <<>>]
NoCsv == [isValid |-> FALSE, rows |-> <<>>]
GoodCsv == [isValid |-> TRUE, rows |-> <<[month |-> "2023-01-01", mrr |-> 200]>>]
GoodSheet == [status |-> "ok", ledger |-> <<Entry("A", "A", "2023-01", 100)>>]
JobRequests ==
  {JobRequest("none", "csv", v, NoSheet) : v \in JobValidations}
    \cup {JobRequest("none", "sheet", NoCsv, p) : p \in JobSheets}
    \cup {JobRequest(defect, "csv", GoodCsv, NoSheet) : defect \in Defects}
    \cup {JobRequest(defect, "sheet", NoCsv, GoodSheet) : defect \in Defects}
DbAnswers == [jobError : BOOLEAN, metricsError : BOOLEAN, updateError : BOOLEAN]

InitJobs ==
  /\ data = <<>>
  /\ metrics = <<>>
  /\ pc = "serving"
  /\ file = NoUpload
  /\ currentYear \in {2025}
  /\ detected = "none"
  /\ outcome = NoOutcome
  /\ token = <<>>
  /\ normalized = NoResult
  /\ validation = NoValidation
  /\ store = NoStore
  /\ before = NoStore
  /\ upload = NoRequest
  /\ localStorage = NoStorage
  /\ extraction = NoExtractions
  /\ classification = NoClassification
  /\ idRun = NoIdRun
  /\ uploadJobs = NoJobs

Served(request, result, jobsBefore) ==
  [rows |-> result.jobs,
   last |-> [reason |-> result.response.reason, status |-> result.response.status,
             jobId |-> result.response.jobId, upserted |-> result.response.upserted,
             request |-> request, jobsBefore |-> jobsBefore]]

\* one request to the upload route, from its arrival to its response
Post ==
  /\ pc = "serving"
  /\ Len(uploadJobs.rows) < MaxJobs
  /\ \E request \in JobRequests, db \in DbAnswers :
       /\ store' = POST(store, uploadJobs.rows, request, db).table
       /\ uploadJobs' = Served(request, POST(store, uploadJobs.rows, request, db),
                               uploadJobs.rows)
  /\ before' = store
  /\ UNCHANGED <<data, metrics, pc, file, currentYear, detected, outcome, token, normalized,
                 validation, upload, localStorage, extraction, classification, idRun>>

NextJobs == Post

SpecJobs == InitJobs /\ [][NextJobs]_vars

(***************************************************************************)
(* Claims about the metrics engine (checked under Spec)                    *)
(***************************************************************************)
Done == pc = "done"
MonthsIn(d) == {d[i].month : i \in DOMAIN d}
\* at most one entry per (customerId, period)
UniqueKeys(d) ==
  \A i, j \in DOMAIN d :
    (d[i].customerId = d[j].customerId /\ d[i].month = d[j].month) => i = j

\* C1: for a ledger whose entries share one period calculateMetrics returns
\* exactly one MonthlyMetrics, and the first period of any series has
\* grossRevenueRetention = 1.0, netRevenueRetention = 1.0, logoChurnRate = 0,
\* churnedMRR = 0 and newMRR = totalMRR.
C1_BaselineFirstPeriod ==
  (Done /\ data # <<>>) =>
    /\ Cardinality(MonthsIn(data)) = 1 => Len(metrics) = 1
    /\ metrics[1].grossRevenueRetention = 10000
    /\ metrics[1].netRevenueRetention = 10000
    /\ metrics[1].logoChurnRate = 0
    /\ metrics[1].churnedMRR = 0
    /\ metrics[1].newMRR = metrics[1].totalMRR

\* the calculator's output as the pre-aggregated rows (MonthlyMetric) the
\* second engine reads
AggregateRows(ms) ==
  [i \in 1..Len(ms) |->
     [month |-> ms[i].month, mrr |-> ms[i].totalMRR,
      new_mrr |-> ms[i].newMRR, expansion_mrr |-> ms[i].expansionMRR,
      contraction_mrr |-> ms[i].contractionMRR, churned_mrr |-> ms[i].churnedMRR,
      customers |-> ms[i].customerCount]]

\* C2: a period whose immediately preceding period has total MRR 0 has gross
\* and net revenue retention exactly 1.0 (never NaN or Infinity), in the
\* customer-level engine and in the pre-aggregated engine.
C2_ZeroBaseRetentionIsOne ==
  Done =>
    \A i \in 2..Len(metrics) :
      metrics[i - 1].totalMRR = 0 =>
        /\ metrics[i].grossRevenueRetention = 10000
        /\ metrics[i].netRevenueRetention = 10000
        /\ LET series == calculateMetricsSeries(AggregateRows(metrics))
           IN /\ IsRat(series[i].m.grr) /\ series[i].m.grr[1] = series[i].m.grr[2]
              /\ IsRat(series[i].m.nrr) /\ series[i].m.nrr[1] = series[i].m.nrr[2]

\* The reference definition of C3, read off the ledger itself.
Present(c, P) == \E i \in DOMAIN data : data[i].customerId = c /\ data[i].month = P
Amount(c, P) ==
  data[CHOOSE i \in DOMAIN data : data[i].customerId = c /\ data[i].month = P].mrr
CustomersIn(P) == {c \in Customers : Present(c, P)}
RECURSIVE SumAmounts(_, _)
SumAmounts(S, P) ==
  IF S = {} THEN 0
  ELSE LET c == CHOOSE x \in S : TRUE IN Amount(c, P) + SumAmounts(S \ {c}, P)
RefTotal(P) == SumAmounts(CustomersIn(P), P)
RefNew(P, Q) ==
  SumAmounts({c \in CustomersIn(P) : ~Present(c, Q) \/ Amount(c, Q) = 0}, P)
RefChurned(P, Q) == SumAmounts({c \in CustomersIn(Q) : ~Present(c, P)}, Q)
InBoth(P, Q) == CustomersIn(P) \cap CustomersIn(Q)
\* as the claim words it: every customer with an entry in both periods
RefExpansionStated(P, Q) ==
  LET S == {c \in InBoth(P, Q) : Amount(c, P) > Amount(c, Q)}
  IN SumAmounts(S, P) - SumAmounts(S, Q)
RefContractionStated(P, Q) ==
  LET S == {c \in InBoth(P, Q) : Amount(c, P) < Amount(c, Q)}
  IN SumAmounts(S, Q) - SumAmounts(S, P)
\* only customers whose amount in the preceding period is not 0
RefExpansion(P, Q) ==
  LET S == {c \in InBoth(P, Q) : Amount(c, Q) # 0 /\ Amount(c, P) > Amount(c, Q)}
  IN SumAmounts(S, P) - SumAmounts(S, Q)
RefContraction(P, Q) ==
  LET S == {c \in InBoth(P, Q) : Amount(c, Q) # 0 /\ Amount(c, P) < Amount(c, Q)}
  IN SumAmounts(S, Q) - SumAmounts(S, P)
\* the metrics of period P against its predecessor Q, given the two
\* movement figures exp and con
RefAgrees(m, P, Q, exp, con) ==
  /\ m.month = P
  /\ m.totalMRR = RefTotal(P)
  /\ m.newMRR = RefNew(P, Q)
  /\ m.expansionMRR = exp
  /\ m.contractionMRR = con
  /\ m.churnedMRR = RefChurned(P, Q)
  /\ m.grossRevenueRetention =
       Round4(RefTotal(Q) - RefChurned(P, Q) - con, RefTotal(Q))
  /\ m.netRevenueRetention =
       Round4(RefTotal(Q) - RefChurned(P, Q) - con + exp, RefTotal(Q))
  /\ m.logoChurnRate =
       Round4(Cardinality({c \in CustomersIn(Q) : ~Present(c, P)}),
              Cardinality(CustomersIn(Q)))
\* the immediately preceding distinct period of the ledger
HasPredecessor(P) == \E Q \in MonthsIn(data) : Q < P
Predecessor(P) ==
  CHOOSE Q \in MonthsIn(data) :
    Q < P /\ \A R \in MonthsIn(data) : R < P => R <= Q
MetricsOf(P) == metrics[CHOOSE i \in DOMAIN metrics : metrics[i].month = P]

\* C3 as stated: expansion and contraction summed over every customer that
\* has an entry in both periods.
C3_ReferenceAsStated ==
  (Done /\ UniqueKeys(data)) =>
    \A P \in MonthsIn(data) :
      (HasPredecessor(P) /\ RefTotal(Predecessor(P)) > 0) =>
        RefAgrees(MetricsOf(P), P, Predecessor(P),
                  RefExpansionStated(P, Predecessor(P)),
                  RefContractionStated(P, Predecessor(P)))

\* C3 (amended): for a ledger with at most one entry per (customerId, period)
\* and every period P whose predecessor has total MRR > 0, the computed
\* metrics equal the reference definition in which expansion and contraction
\* range over the customers present in both periods whose amount in the
\* predecessor is not 0 (a customer at 0 in the predecessor counts as new
\* only).
C3_ReferenceAgreement ==
  (Done /\ UniqueKeys(data)) =>
    \A P \in MonthsIn(data) :
      (HasPredecessor(P) /\ RefTotal(Predecessor(P)) > 0) =>
        RefAgrees(MetricsOf(P), P, Predecessor(P),
                  RefExpansion(P, Predecessor(P)),
                  RefContraction(P, Predecessor(P)))

\* a two-period ledger with an expansion and a churned customer:
\* X 50 -> 100, Y 50 -> no entry
C3_Witness ==
  /\ Done /\ UniqueKeys(data)
  /\ \E P \in MonthsIn(data) :
       /\ HasPredecessor(P) /\ RefTotal(Predecessor(P)) > 0
       /\ MetricsOf(P).expansionMRR > 0
       /\ MetricsOf(P).churnedMRR > 0
       /\ MetricsOf(P).grossRevenueRetention = 5000
       /\ MetricsOf(P).logoChurnRate = 5000

\* C4: calculateMetrics returns one MonthlyMetrics per distinct period of the
\* input, in strictly ascending period order whatever the input order, and
\* customerCount is the number of distinct customerIds with an entry in the
\* period.
C4_OnePerPeriodAscending ==
  Done =>
    /\ Len(metrics) = Cardinality(MonthsIn(data))
    /\ {metrics[i].month : i \in DOMAIN metrics} = MonthsIn(data)
    /\ \A i \in 2..Len(metrics) : metrics[i - 1].month < metrics[i].month
    /\ \A i \in DOMAIN metrics :
         metrics[i].customerCount = Cardinality(CustomersIn(metrics[i].month))

\* an input whose entries are not in period order, with a repeated customer
C4_Witness ==
  /\ Done
  /\ Len(metrics) >= 2
  /\ \E i, j \in DOMAIN data : i < j /\ data[i].month > data[j].month
  /\ ~UniqueKeys(data)

(***************************************************************************)
(* Claims about the record extractor (checked under SpecParse)             *)
(***************************************************************************)
Parsed == pc = "done" /\ file.kind \in {"csv", "excel"}
ReturnedLedger == Parsed /\ outcome.status = "ok"
\* the header row of the upload as texts, and its data rows
HasHeaderRow == file.kind = "csv" \/ Len(file.rows) >= 1
HeaderTexts ==
  IF file.kind = "csv" THEN file.headers
  ELSE [i \in DOMAIN file.rows[1] |->
          IF file.rows[1][i].t = "null" THEN <<>> ELSE trim(ToStr(file.rows[1][i]))]
DataRows == IF file.kind = "csv" THEN file.rows ELSE Tail(file.rows)
\* what detectDataFormat answers for the header row of the upload
HeaderClass == detectDataFormat(HeaderTexts, currentYear)
\* the table is read customers-as-rows: the wide CSV path or the Excel path
CustomersAsRows ==
  \/ file.kind = "csv" /\ detected = "wide"
  \/ file.kind = "excel" /\ Len(file.rows) >= 2

\* C5: the ledger an extraction path returns has at most one entry per
\* (customerId, period) pair.
C5_OneEntryPerCustomerPeriod ==
  ReturnedLedger =>
    \A i, j \in DOMAIN outcome.ledger :
      (/\ outcome.ledger[i].customerId = outcome.ledger[j].customerId
       /\ outcome.ledger[i].month = outcome.ledger[j].month) => i = j

\* the period columns of a customers-as-rows table, and the cells of a row
\* that hold a non-negative number
PeriodColumnsOf ==
  {j \in DOMAIN HeaderTexts :
     j > 1 /\ HeaderTexts[j] \in Range(findMonthColumns(HeaderTexts, currentYear))}
IsNonNegativeNumber(cell) ==
  \/ cell.t = "number" /\ cell.n >= 0
  \/ cell.t = "string" /\ RegexTest(<<Item(Digit, 1, Many)>>, trim(cell.s))
NumberIn(cell) == IF cell.t = "number" THEN cell.n ELSE DigitsToInt(trim(cell.s))
RowName(row) == trim(ToStr(row[1]))
NumericCells(row) == {j \in PeriodColumnsOf : IsNonNegativeNumber(row[j])}
EntriesNamed(name) ==
  {i \in DOMAIN outcome.ledger : outcome.ledger[i].customerName = name}

\* C6: in customers-as-rows extraction a period cell produces a ledger entry
\* if and only if it holds a non-negative number (an explicit 0 gives an entry
\* with amount 0; blank, N/A, NULL, -, NaN, non-numeric and negative cells give
\* none): the entries of a customer row that was read are exactly its
\* non-negative numeric period cells.
C6_EntryIffNonNegativeNumber ==
  (ReturnedLedger /\ CustomersAsRows) =>
    \A r \in DOMAIN DataRows :
      LET row == DataRows[r]
      IN (/\ \A q \in DOMAIN DataRows : RowName(DataRows[q]) = RowName(row) => q = r
          /\ EntriesNamed(RowName(row)) # {}) =>
           /\ Cardinality(EntriesNamed(RowName(row))) = Cardinality(NumericCells(row))
           /\ {<<outcome.ledger[i].month, outcome.ledger[i].mrr>> :
                 i \in EntriesNamed(RowName(row))}
              = {<<parseMonthHeader(HeaderTexts[j], currentYear).v, NumberIn(row[j])>> :
                   j \in NumericCells(row)}

\* C7: every ledger entry an extraction path returns has amount >= 0.
C7_AmountsNonNegative ==
  ReturnedLedger => \A i \in DOMAIN outcome.ledger : outcome.ledger[i].mrr >= 0

\* C8: detectDataFormat answers 'hybrid' for every header set that has both
\* long-format indicator headers and at least three period headers.
C8_MixedHeadersAreHybrid ==
  (Parsed /\ file.kind = "csv" /\ Len(file.rows) > 0) =>
    ((/\ hasLongFormatColumns(ObjectKeys(file.headers))
      /\ Len(findMonthColumns(ObjectKeys(file.headers), currentYear)) >= 3)
       => detected = "hybrid")

\* C9: an upload (CSV or Excel) whose header row detectDataFormat classifies
\* as 'hybrid' or 'unknown' fails with a format error and yields no ledger
\* entry.
C9_UnknownOrHybridRejected ==
  (Parsed /\ HasHeaderRow /\ HeaderClass.format \in {"hybrid", "unknown"}) =>
    /\ outcome.status = "DataFormatError"
    /\ outcome.ledger = <<>>

\* C10: every extraction path either returns a non-empty ledger or fails with
\* a DataFormatError that carries suggestions.
C10_NonEmptyOrDataFormatError ==
  Parsed =>
    \/ outcome.status = "ok" /\ outcome.ledger # <<>>
    \/ outcome.status = "DataFormatError" /\ outcome.suggestions > 0

\* the rows of the table named 'Acme Corp', and the table has no id column
AcmeCorp == <<"A", "c", "m", "e", " ", "C", "o", "r", "p">>
AcmeRows == {r \in DOMAIN DataRows : RowName(DataRows[r]) = AcmeCorp}
NoIdColumn == \A i \in DOMAIN HeaderTexts : ~EndsWithId(HeaderTexts[i])
\* the (period, amount) pairs of the ledger entries that carry customer id `id`
CellsOfId(id) ==
  {<<outcome.ledger[i].month, outcome.ledger[i].mrr>> :
     i \in {k \in DOMAIN outcome.ledger : outcome.ledger[k].customerId = id}}
\* the (period, amount) pairs of the non-negative numeric period cells of a row
CellsOfRow(row) ==
  {<<parseMonthHeader(HeaderTexts[j], currentYear).v, NumberIn(row[j])>> :
     j \in NumericCells(row)}

HasPositiveCell(row) == \E j \in NumericCells(row) : NumberIn(row[j]) > 0

\* C11: in a customers-as-rows table without an id column, when two distinct
\* rows are both named 'Acme Corp' (and both hold a positive amount), the entries of
\* the first row get customerId 'acme_corp' and those of the second row get
\* 'acme_corp_1', on the wide CSV path and on the Excel path.
C11_IdCollisionInRowOrder ==
  (Parsed /\ CustomersAsRows /\ NoIdColumn) =>
    \A i, j \in AcmeRows :
      (/\ i < j
       /\ AcmeRows = {i, j}
       /\ HasPositiveCell(DataRows[i])
       /\ HasPositiveCell(DataRows[j])) =>
        /\ outcome.status = "ok"
        /\ CellsOfId(<<"a", "c", "m", "e", "_", "c", "o", "r", "p">>) = CellsOfRow(DataRows[i])
        /\ CellsOfId(<<"a", "c", "m", "e", "_", "c", "o", "r", "p", "_", "1">>) = CellsOfRow(DataRows[j])

\* the outcomes an extraction of the uploaded table can have when it runs in
\* year `year` at clock reading `timestamp`
RunOutcomes(year, timestamp) ==
  IF file.kind = "csv" THEN transformData(file.headers, file.rows, year, timestamp)
  ELSE {transformExcelData(file.rows)}

\* C12: extraction is deterministic: any other run on the same raw table, at
\* whatever wall-clock time, returns the same ledger sequence (same entries,
\* order, generated ids and normalized periods) as the run that was made.
C12_ExtractionDeterministic ==
  Parsed =>
    \A year \in CurrentYears, timestamp \in Timestamps :
      RunOutcomes(year, timestamp) = {outcome}

(***************************************************************************)
(* Claims about the period normalizer (checked under SpecPeriod)           *)
(***************************************************************************)
\* a canonical period: four digits, '-', two digits that name a month 01..12
IsCanonicalPeriod(v) ==
  /\ Len(v) = 7
  /\ \A i \in {1, 2, 3, 4, 6, 7} : v[i] \in Digit
  /\ v[5] = "-"
  /\ DigitsToInt(SubSeq(v, 6, 7)) \in 1..12
Answered(by) == pc = "done" /\ normalized.by = by

\* C13: for every token of a format of the period grammar, whenever
\* parseMonthHeader returns a value, the value is a canonical YYYY-MM string
\* (four-digit year, '-', two-digit month between 01 and 12).
C13_NormalizedIsCanonical ==
  (Answered("parseMonthHeader") /\ normalized.ok) => IsCanonicalPeriod(normalized.v)

\* C14: period normalization is idempotent on canonical values:
\* parseMonthHeader and formatMonth each return every valid YYYY-MM string
\* unchanged, and applied to a value they returned they return that value.
C14_NormalizationIdempotent ==
  /\ \A by \in {"parseMonthHeader", "formatMonth"} :
       (Answered(by) /\ IsCanonicalPeriod(token)) =>
         (normalized.ok /\ normalized.v = token)
  /\ pc = "again" => (normalized.ok /\ normalized.v = token)
C14_Witness ==
  /\ pc = "again"
  /\ normalized.by = "formatMonth"
  /\ IsCanonicalPeriod(token)
  /\ normalized.v = token

\* the century of year Y: 100 * floor(Y / 100)
CenturyOf(Y) == 100 * (Y \div 100)

\* C15: normalizeYear maps a two-digit year yy, with current year Y and
\* C = 100 * floor(Y / 100), to C + yy when yy <= (Y - C) + 20 and to
\* C - 100 + yy otherwise (with Y = 2025: 45 gives 2045, 46 gives 1946); a
\* four-digit year is returned unchanged, also outside 1990-2099.
C15_TwoDigitYearWindow ==
  Answered("normalizeYear") =>
    /\ Len(token) = 2 =>
         /\ normalized.ok
         /\ Len(normalized.v) = 4
         /\ DigitsToInt(normalized.v) =
              IF DigitsToInt(token) <= (currentYear - CenturyOf(currentYear)) + 20
              THEN CenturyOf(currentYear) + DigitsToInt(token)
              ELSE CenturyOf(currentYear) - 100 + DigitsToInt(token)
    /\ (currentYear = 2025 /\ token = <<"4", "5">>) => normalized.v = <<"2", "0", "4", "5">>
    /\ (currentYear = 2025 /\ token = <<"4", "6">>) => normalized.v = <<"1", "9", "4", "6">>
    /\ Len(token) = 4 => (normalized.ok /\ normalized.v = token)
C15_Witness ==
  /\ Answered("normalizeYear")
  /\ currentYear = 2025
  /\ token = <<"4", "6">>
  /\ normalized.v = <<"1", "9", "4", "6">>

(***************************************************************************)
(* Claims about the row-level validator (checked under SpecValidate)       *)
(***************************************************************************)
Validated == pc = "done" /\ file.kind = "validate"
\* the user-facing row numbers that have an error recorded
ErrorRowNumbers == {validation.errors[i].row : i \in DOMAIN validation.errors}
\* the data rows (1-based positions) with no error recorded; data row i has
\* the user-facing row number i + 1
CleanRows == {i \in DOMAIN file.rows : (i + 1) \notin ErrorRowNumbers}
\* the k-th clean data row, in input order
NthCleanRow(k) ==
  CHOOSE i \in CleanRows : Cardinality({j \in CleanRows : j < i}) = k - 1
\* the returned row carries every field the data row gives, the amount being
\* the number the mrr cell holds
WholeRow(returned, row) ==
  /\ \A f \in DOMAIN FieldKey :
       IsGiven(RowGet(file.headers, row, FieldKey[f])) => f \in DOMAIN returned
  /\ "mrr" \in DOMAIN returned
  /\ returned["mrr"].v = ToNumber(ToStr(RowGet(file.headers, row, FieldKey["mrr"]))).v

LongParse == Parsed /\ file.kind = "csv" /\ detected = "long"
\* the cells of a long-format row, by the first header names of the format
LongId(row) == RowGet(file.headers, row, IdAliases[1])
LongName(row) == RowGet(file.headers, row, NameAliases[1])
LongMonth(row) == RowGet(file.headers, row, MonthAliases[1])
LongAmount(row) == RowGet(file.headers, row, MrrAliases[1])
\* the amount cell holds a number
AmountCoerces(row) ==
  /\ LongAmount(row).t = "string"
  /\ RegexTest(<<Item({"-"}, 0, 1), Item(Digit, 1, Many)>>, trim(LongAmount(row).s))
\* a row with customer id, customer name, a period that normalizes and a
\* numeric amount
ValidLongRow(row) ==
  /\ Truthy(LongId(row))
  /\ Truthy(LongName(row))
  /\ Truthy(LongMonth(row))
  /\ formatMonth(ToStr(LongMonth(row))).ok
  /\ AmountCoerces(row)
\* the ledger holds the entry of a valid row
RowReturned(row) ==
  \E i \in DOMAIN outcome.ledger :
    /\ outcome.ledger[i].customerId = ToStr(LongId(row))
    /\ outcome.ledger[i].customerName = ToStr(LongName(row))
    /\ outcome.ledger[i].month = formatMonth(ToStr(LongMonth(row))).v
    /\ outcome.ledger[i].mrr = parseInt(ToStr(LongAmount(row))).v

\* C17: in the long-format path one bad data row never aborts the upload: a
\* row whose period cannot be normalized (or that is otherwise malformed) is
\* skipped alone, and every valid row of the table is still returned.
C17_BadRowSkippedAlone ==
  LongParse =>
    \A r \in DOMAIN file.rows :
      ValidLongRow(file.rows[r]) => (outcome.status = "ok" /\ RowReturned(file.rows[r]))

\* the data rows of the upload that hold id, name, a normalizable period and
\* a numeric amount
ValidLongRows == {r \in DOMAIN file.rows : ValidLongRow(file.rows[r])}

\* C18: in the long-format path a data row yields a ledger entry only if
\* customer id, customer name, period and amount are all present and the
\* amount coerces to a number; a row whose amount cell is missing or blank is
\* skipped, so the ledger holds exactly one entry per such row.
C18_EntryOnlyForCompleteRow ==
  (LongParse /\ outcome.status = "ok") =>
    Len(outcome.ledger) = Cardinality(ValidLongRows)

(***************************************************************************)
(* Claims about the Magic Number (checked under Spec)                      *)
(***************************************************************************)
\* the Magic Number as stated for month i of the series, in hundredths
StatedMagicNumber(i) ==
  LET numerator == metrics[i].newMRR + metrics[i].expansionMRR
      denominator == metrics[i].churnedMRR + metrics[i].contractionMRR
  IN IF i = 1 THEN 0
     ELSE IF denominator > 0 THEN RoundHundredths(numerator, denominator)
     ELSE IF numerator > 0 THEN 500 ELSE 0
\* the Magic Number of lib/metrics for month i: whether it is a finite
\* number, and then its value in hundredths
LibMagicNumber(i) ==
  LET m == calculateMetricsSeries(AggregateRows(metrics))[i].m.magicNumber
  IN [defined |-> IsRat(m), v |-> IF IsRat(m) THEN RoundHundredths(m[1], m[2]) ELSE 0]
LibGives(i, v) == LibMagicNumber(i).defined /\ LibMagicNumber(i).v = v

\* C19: every site that computes the Magic Number of a month gives 0 for the
\* first month of the series, otherwise (newMRR + expansionMRR) /
\* (churnedMRR + contractionMRR) when the denominator is > 0, 5 when the
\* denominator is 0 and the numerator is > 0, and 0 when both are 0; so the
\* chart, the summary table and lib/metrics agree on every month.
C19_MagicNumberSameEverywhere ==
  Done =>
    \A i \in DOMAIN metrics :
      /\ MagicNumberChart(metrics)[i] = StatedMagicNumber(i)
      /\ SummaryKPITable(metrics)[i] = StatedMagicNumber(i)
      /\ LibGives(i, StatedMagicNumber(i))
\* the two components alone
C19_ComponentsAgree ==
  Done =>
    \A i \in DOMAIN metrics :
      SummaryKPITable(metrics)[i] = MagicNumberChart(metrics)[i]
\* the chart alone against the statement
C19_ChartAsStated ==
  Done => \A i \in DOMAIN metrics : MagicNumberChart(metrics)[i] = StatedMagicNumber(i)
\* lib/metrics alone against the statement, after the first month
C19_LibAsStated ==
  Done => \A i \in DOMAIN metrics : i > 1 => LibGives(i, StatedMagicNumber(i))

(***************************************************************************)
(* Claims about the monthly_metrics table (checked under SpecStore)        *)
(***************************************************************************)
\* the last request was stored
Stored == upload.status = 200
\* the keys the last request sent
UploadKeys == {<<upload.companyId, upload.rows[i].month>> : i \in DOMAIN upload.rows}
\* the value columns of a row of the table
ValueColumns ==
  {"mrr", "new_mrr", "expansion_mrr", "contraction_mrr", "churned_mrr", "customers"}
\* the value the request carries for a column: the field, or 0 without one
Sent(metric, column) == IF column \in DOMAIN metric THEN metric[column] ELSE 0
\* the table holds for the key of a sent row that row and nothing else
HoldsSentRow(metric) ==
  LET k == <<upload.companyId, metric.month>>
  IN /\ k \in DOMAIN store
     /\ store[k].company_id = upload.companyId
     /\ store[k].month = metric.month
     /\ \A column \in ValueColumns : store[k][column] = Sent(metric, column)
\* a key the request did not send is as it was
KeptAsBefore(k) ==
  /\ (k \in DOMAIN store) = (k \in DOMAIN before)
  /\ k \in DOMAIN store => store[k] = before[k]

\* C20: writes to monthly_metrics are upserts keyed on (company_id, month):
\* a stored upload that is sent a second time leaves the table as it was after
\* the first time, the row of every key of a stored upload is entirely the
\* values of that upload, and the rows of all other keys are unchanged.
C20_UpsertByCompanyMonth ==
  /\ upload.again => store = before
  /\ Stored => \A i \in DOMAIN upload.rows : HoldsSentRow(upload.rows[i])
  /\ \A k \in (DOMAIN store \cup DOMAIN before) \ UploadKeys : KeptAsBefore(k)
  /\ ~Stored => store = before
\* a stored upload replaced a row whose new_mrr it did not carry, next to a
\* row of another key
C20_Witness ==
  /\ Stored
  /\ \E k \in UploadKeys \cap DOMAIN before :
       before[k].new_mrr = 50 /\ store[k].new_mrr = 0 /\ store[k].mrr = 200
  /\ \E k \in DOMAIN store \ UploadKeys : store[k] = before[k]
\* a stored upload was sent a second time over a row it had replaced
C20_RepeatReached ==
  /\ upload.again /\ Stored /\ upload.rows # <<>>

(***************************************************************************)
(* Claims about the DataStore (checked under SpecDataStore)                *)
(***************************************************************************)
\* C21: the stored metrics are always a pure view of the stored ledger:
\* after any saves and clears, any storage call of which may throw, either
\* both keys are absent or getMetrics() equals
\* calculateMetrics(getCustomerData()).
C21_MetricsAreViewOfLedger ==
  \/ DOMAIN localStorage = {}
  \/ getMetrics(localStorage) = calculateMetrics(getCustomerData(localStorage))

(***************************************************************************)
(* Claims about concurrent extractions (checked under SpecConcurrent)      *)
(***************************************************************************)
\* what extraction p returns when it runs alone, with the month order it took
AloneOutcomes(p) ==
  {transformWideFormatData(extraction[p].file.headers, extraction[p].file.rows,
     detectDataFormat(ObjectKeys(extraction[p].file.headers), currentYear),
     extraction[p].sorted, currentYear, timestamp) : timestamp \in Timestamps}

\* C22: two extractions whose steps are interleaved each return exactly the
\* ledger they return when run alone, generated customer ids included: the
\* id set and the result list of one are never read or written by the other.
C22_InterleavedAsAlone ==
  \A p \in Extractions :
    extraction[p].pc = "done" => extraction[p].returned \in AloneOutcomes(p)
\* both extractions returned after interleaved row loops, and each generated
\* a suffixed id for a second row of the same customer name
C22_Witness ==
  \A p \in Extractions :
    /\ extraction[p].pc = "done"
    /\ extraction[p].interleaved
    /\ extraction[p].returned.status = "ok"
    /\ \E i \in DOMAIN extraction[p].returned.ledger :
         extraction[p].returned.ledger[i].customerId = <<"a", "c", "m", "e", "_", "c", "o", "r", "p", "_", "1">>

\* the share of headers that have the loose date-like shape of the fallback
LooseShaped(header) == \E pat \in PotentialDatePatterns : RegexTest(pat, header)
LooseMajority(headers) ==
  2 * Len(SelectSeq(CleanHeaders(headers), LooseShaped)) > Len(CleanHeaders(headers))
RatLess(a, b) == a[1] * b[2] < b[1] * a[2]
FewRecognized == Len(findMonthColumns(CleanHeaders(classification.headers), currentYear)) < 3

\* C23: with fewer than three recognized period columns a header row is
\* classified 'wide' only when a majority of its non-empty headers have the
\* loose date-like shape, and then with a confidence of at most 0.8; and a row
\* with no such majority and no long-format indicator is classified 'unknown'
C23_WideFallbackNeedsMajority ==
  (classification.done /\ FewRecognized) =>
    /\ (classification.result.format = "wide" =>
          /\ LooseMajority(classification.headers)
          /\ ~RatLess(Rat(8, 10), classification.result.confidence))
    /\ ((~LooseMajority(classification.headers)
         /\ ~hasLongFormatColumns(CleanHeaders(classification.headers)))
          => classification.result.format = "unknown")
\* the second half of C23 alone: every fallback confidence is below the
\* confidence of every pattern-based wide detection
C23_FallbackBelowPattern ==
  (classification.done /\ classification.result.format = "wide") =>
    IF FewRecognized
    THEN RatLess(classification.result.confidence, Rat(9, 10))
    ELSE RatLess(Rat(8, 10), classification.result.confidence)
\* what does hold of the fallbacks: never more than 0.8
C23_FallbackAtMostEightTenths ==
  (classification.done /\ FewRecognized /\ classification.result.format = "wide") =>
    ~RatLess(Rat(8, 10), classification.result.confidence)

\* the header row as the extraction names it (transformExcelData names a
\* blank first header 'Customer'), and the identity column detection chooses
\* in it: the first of findCustomerColumns, as a position in the header row
HeaderNames == IF file.kind = "csv" THEN file.headers ELSE ExcelHeaders(file.rows[1])
HasIdentityColumn ==
  /\ HasHeaderRow
  /\ findCustomerColumns(CleanHeaders(HeaderNames)) # <<>>
IdentityColumn ==
  CHOOSE i \in DOMAIN HeaderNames :
    /\ HeaderNames[i] = findCustomerColumns(CleanHeaders(HeaderNames))[1]
    /\ \A j \in 1..(i - 1) : HeaderNames[j] # HeaderNames[i]
IdentityOf(row) == trim(ToStr(row[IdentityColumn]))
HasIdentity(row) ==
  /\ IdentityColumn \in DOMAIN row
  /\ row[IdentityColumn].t \in {"string", "number"}
  /\ IdentityOf(row) # <<>>

\* C24: in customers-as-rows extraction every data row after the header whose
\* cell in the identity column chosen by detection is non-empty and that has
\* at least one valid numeric period cell yields ledger entries that carry
\* that identity, whatever the identity header or the customer's name
C24_IdentityRowYieldsEntries ==
  (Parsed /\ CustomersAsRows /\ HasIdentityColumn) =>
    \A r \in DOMAIN DataRows :
      (HasIdentity(DataRows[r]) /\ NumericCells(DataRows[r]) # {}) =>
        /\ ReturnedLedger
        /\ EntriesNamed(IdentityOf(DataRows[r])) # {}
\* the same on the CSV path alone
C24_CsvIdentityRowYieldsEntries ==
  file.kind = "csv" => C24_IdentityRowYieldsEntries

\* C25: every ledger entry an extraction path returns has a canonical period:
\* four digits, '-', two digits that name a month 01..12; entries the wide
\* path makes from a slash header that parseMonthHeader rejected, and from
\* period columns found by the fallbacks of detectDataFormat, included
C25_ReturnedPeriodsCanonical ==
  ReturnedLedger =>
    \A i \in DOMAIN outcome.ledger : IsCanonicalPeriod(outcome.ledger[i].month)

\* the id the claim states for a call: the bare base id when it is free, else
\* the suffixed id of the smallest free counter from 1
StatedId(name, taken) ==
  IF BaseId(name) \notin taken THEN BaseId(name)
  ELSE WithCounter(BaseId(name),
                   MinOf({k \in 1..MaxIdCounter : WithCounter(BaseId(name), k) \notin taken}))
UnderCap(name, taken) ==
  \/ BaseId(name) \notin taken
  \/ \E k \in 1..(MaxIdCounter - 1) : WithCounter(BaseId(name), k) \notin taken

\* C26: every call of generateCustomerId returns an id that was not in the
\* set before the call and leaves it in the set, so the ids handed to the
\* rows of one run are pairwise distinct
C26_GeneratedIdIsFresh ==
  /\ \A i \in DOMAIN idRun.assigned :
       /\ idRun.assigned[i].fresh
       /\ idRun.assigned[i].id \in idRun.existingIds
  /\ \A i, j \in DOMAIN idRun.assigned :
       idRun.assigned[i].id = idRun.assigned[j].id => i = j
\* the part of C26 that holds: below the cap the id is the bare base id when
\* free and else the smallest free suffix, it is new, and it is in the set
C26_SmallestFreeSuffixUnderCap ==
  \A i \in DOMAIN idRun.assigned :
    UnderCap(idRun.assigned[i].name, idRun.assigned[i].taken) =>
      /\ idRun.assigned[i].id = StatedId(idRun.assigned[i].name, idRun.assigned[i].taken)
      /\ idRun.assigned[i].fresh
      /\ idRun.assigned[i].id \in idRun.existingIds

\* the entries of the periods of the series, in series order, and the entries
\* of one customer among them
SeriesMonths == MonthsOf(groupByMonth(data))
EntriesAt(i) == IF i \in 1..Len(SeriesMonths) THEN groupByMonth(data).get[SeriesMonths[i]] ELSE <<>>
Only(list, id) == SelectSeq2(list, {e \in Range(list) : e.customerId = id})
\* what calculateMonthMetrics computes for period i from one customer alone
PartOf(i, id) ==
  calculateMonthMetrics(SeriesMonths[i], Only(EntriesAt(i), id), Only(EntriesAt(i - 1), id))
CustomersAt(i) ==
  {e.customerId : e \in Range(EntriesAt(i))} \cup {e.customerId : e \in Range(EntriesAt(i - 1))}
Components(m) == <<m.newMRR, m.expansionMRR, m.contractionMRR, m.churnedMRR>>
PreviousTotal(i) == IF i > 1 THEN metrics[i - 1].totalMRR ELSE 0

\* C27: in every period of the series totalMRR is the totalMRR of the
\* preceding period plus newMRR plus expansionMRR minus contractionMRR minus
\* churnedMRR (for the first period totalMRR = newMRR); the four components
\* are the sums of what each customer contributes, and a customer contributes
\* to at most one of them
C27_MrrBridge ==
  Done =>
    \A i \in DOMAIN metrics :
      /\ metrics[i].totalMRR =
           PreviousTotal(i) + metrics[i].newMRR + metrics[i].expansionMRR
             - metrics[i].contractionMRR - metrics[i].churnedMRR
      /\ i = 1 => metrics[i].totalMRR = metrics[i].newMRR
      /\ \A k \in 1..4 :
           Components(metrics[i])[k] =
             SumOver([id \in CustomersAt(i) |-> Components(PartOf(i, id))[k]], CustomersAt(i))
      /\ \A id \in CustomersAt(i) :
           Cardinality({k \in 1..4 : Components(PartOf(i, id))[k] # 0}) <= 1
\* a period in which one customer expanded and another churned, and one that
\* follows a negative amount
C27_Witness ==
  /\ Done
  /\ \E i \in DOMAIN metrics :
       i > 1 /\ metrics[i].expansionMRR > 0 /\ metrics[i].churnedMRR > 0
C27_WitnessNegative ==
  /\ Done
  /\ \E i \in DOMAIN metrics : i > 1 /\ metrics[i - 1].totalMRR < 0 /\ metrics[i].newMRR > 0

\* a ledger without a negative amount
NonNegativeLedger == \A i \in DOMAIN data : data[i].mrr >= 0
\* retention and churn rates are counted in 1/10000
RateOne == 10000

Answered422(reason) == uploadJobs.last.reason = reason
InsertedJob == uploadJobs.last.reason # "none" /\ uploadJobs.last.jobId # 0
LastJob == uploadJobs.rows[uploadJobs.last.jobId]

\* C29: when the response of an upload request that inserted an upload job
\* is returned, the job is 'completed' if the upsert of its metrics
\* succeeded and 'failed' if it did not, never 'processing'; no job is
\* 'completed' unless its metrics were written; and a success response is
\* returned only for a 'completed' job
C29_JobSettledAtResponse ==
  /\ InsertedJob =>
       /\ LastJob.status # "processing"
       /\ uploadJobs.last.upserted => LastJob.status = "completed"
       /\ ~uploadJobs.last.upserted => LastJob.status = "failed"
       /\ uploadJobs.last.status = 200 => LastJob.status = "completed"
  /\ \A i \in DOMAIN uploadJobs.rows :
       uploadJobs.rows[i].status = "completed" => uploadJobs.rows[i].written
\* the part of C29 that holds: a completed job has its metrics written, a
\* failed job has not, and a success response follows a successful upsert
C29_CompletedOnlyWhenWritten ==
  /\ \A i \in DOMAIN uploadJobs.rows :
       /\ uploadJobs.rows[i].status = "completed" => uploadJobs.rows[i].written
       /\ uploadJobs.rows[i].status = "failed" => ~uploadJobs.rows[i].written
  /\ (InsertedJob /\ uploadJobs.last.status = 200) => LastJob.written

\* the reasons for which the route rejects an upload
RejectReasons ==
  {"file", "company", "type", "size", "auth", "owner", "validation", "parse", "empty"}
RejectedUpload == uploadJobs.last.reason \in RejectReasons
\* the request was one the claim calls rejected
ShouldReject(request) ==
  \/ ~request.file
  \/ request.companyId = ""
  \/ ~request.typeAllowed
  \/ request.tooLarge
  \/ ~request.user
  \/ ~request.owner
  \/ request.kind = "csv" /\ ~request.validationResult.isValid
  \/ request.kind = "sheet" /\ request.parsed.status # "ok"
  \/ Len(ParsedData(request)) = 0

\* C30: a request without file or company, with a rejected type or size,
\* from a user who is not authenticated or does not own the company, with a
\* CSV the validator reports an error for, or whose parsing gives no rows,
\* is answered with an error, and leaves the upload_jobs table and the
\* monthly_metrics table as they were
C30_RejectedUploadChangesNothing ==
  (uploadJobs.last.reason # "none" /\ ShouldReject(uploadJobs.last.request)) =>
    /\ RejectedUpload
    /\ uploadJobs.last.status >= 400
    /\ uploadJobs.rows = uploadJobs.last.jobsBefore
    /\ store = before
\* a CSV with valid rows and an error is rejected while the tables hold rows
C30_Witness ==
  /\ uploadJobs.last.reason = "validation"
  /\ uploadJobs.last.request.validationResult.rows # <<>>
  /\ uploadJobs.rows # <<>>
  /\ store # NoStore

====
